---- MODULE Spec2Model ----
(***************************************************************************)
(* Conversation orchestration core of the natal-chart bot:                 *)
(* ConversationService.processMessage and its state handlers, the          *)
(* UserService repository operations they call, AstrologyService           *)
(* (geocoding, chart generation with its local fallback) and AiService     *)
(* (interpretation / advice / horoscope with their templates).             *)
(*                                                                         *)
(* Message texts are sequences of one-character strings, so that trim,     *)
(* toLowerCase, includes and the regular expressions of the handlers are   *)
(* computed character by character.                                        *)
(***************************************************************************)
EXTENDS Integers, Sequences, FiniteSets, TLC

(***************************************************************************)
(* State.                                                                  *)
(*   users     the users table, by channel address: <<>> or <<row>>        *)
(*   messages  the messages table, in insertion (createdAt) order          *)
(*   tasks     the turns being processed: position, the user object the    *)
(*             turn was given, its locals, and (trace) the calls it has    *)
(*             made so far, in order, and (status) the HTTP status the     *)
(*             webhook request was answered with                           *)
(*   nextId    the next user id the table generates                        *)
(*   turns     number of turns received so far                             *)
(*   openai    whether a language-model client is configured               *)
(*   auth      the token cache of AstrologyService, the clock, and the     *)
(*             calls of getProkeralaToken in progress                      *)
(***************************************************************************)
VARIABLES users, messages, tasks, nextId, turns, openai, auth
vars == <<users, messages, tasks, nextId, turns, openai, auth>>

(***************************************************************************)
(* Bounds of the model.                                                    *)
(***************************************************************************)
MaxTurns == 7

(***************************************************************************)
(* Characters and strings.                                                 *)
(***************************************************************************)
LatinUpper == <<"A", "B", "C", "D", "E", "F", "G", "H", "I", "J", "K", "L", "M", "N", "O", "P", "Q", "R", "S", "T", "U", "V", "W", "X", "Y", "Z">>
LatinLower == <<"a", "b", "c", "d", "e", "f", "g", "h", "i", "j", "k", "l", "m", "n", "o", "p", "q", "r", "s", "t", "u", "v", "w", "x", "y", "z">>
Digits == <<"0", "1", "2", "3", "4", "5", "6", "7", "8", "9">>

Range(f) == {f[i] : i \in DOMAIN f}

IsDigit(c) == c \in Range(Digits)
IsLetter(c) == c \in Range(LatinUpper) \cup Range(LatinLower)
IsSpace(c) == c = " "

DigitVal(c) == (CHOOSE i \in 1..10 : Digits[i] = c) - 1

\* String.prototype.toLowerCase, one character
LowerChar(c) ==
  IF c \in Range(LatinUpper)
    THEN LatinLower[CHOOSE i \in 1..26 : LatinUpper[i] = c]
    ELSE c

\* String.prototype.toLowerCase
\* a toLowerCase that leaves the text as it is
ToLower_Unchanged(s) == s
ToLower(s) == [i \in 1..Len(s) |-> LowerChar(s[i])]

\* String.prototype.trim
Trim(s) ==
  LET nonSpace == {i \in 1..Len(s) : ~IsSpace(s[i])}
  IN  IF nonSpace = {} THEN <<>>
      ELSE LET lo == CHOOSE i \in nonSpace : \A j \in nonSpace : i <= j
               hi == CHOOSE i \in nonSpace : \A j \in nonSpace : i >= j
           IN  SubSeq(s, lo, hi)

\* String.prototype.includes
Includes(s, sub) ==
  \E i \in 1..(Len(s) - Len(sub) + 1) : SubSeq(s, i, i + Len(sub) - 1) = sub

\* parseInt of a string of decimal digits
RECURSIVE ParseInt(_)
ParseInt(ds) ==
  IF ds = <<>> THEN 0
  ELSE 10 * ParseInt(SubSeq(ds, 1, Len(ds) - 1)) + DigitVal(ds[Len(ds)])

\* no padding
PadStart2_Unpadded(s) == s

\* String.prototype.padStart(2, '0')
PadStart2(s) == IF Len(s) < 2 THEN <<"0">> \o s ELSE s

KwMenu == <<"m", "e", "n", "u">>
KwHelp == <<"h", "e", "l", "p">>
KwReset == <<"r", "e", "s", "e", "t">>
KwStartOver == <<"s", "t", "a", "r", "t", " ", "o", "v", "e", "r">>
KwMyChart == <<"m", "y", " ", "c", "h", "a", "r", "t">>
KwSummary == <<"s", "u", "m", "m", "a", "r", "y">>
KwToday == <<"t", "o", "d", "a", "y">>
KwDaily == <<"d", "a", "i", "l", "y">>
KwHoroscope == <<"h", "o", "r", "o", "s", "c", "o", "p", "e">>
KwUnknown == <<"u", "n", "k", "n", "o", "w", "n">>
KwDontKnow == <<"d", "o", "n", "'", "t", " ", "k", "n", "o", "w">>

(***************************************************************************)
(* Input parsing of the onboarding handlers.                               *)
(***************************************************************************)

\* name.trim().replace(/[^a-zA-Z...\s-']/g, '')
NameCharAllowed(c) == IsLetter(c) \/ IsSpace(c) \/ c = "-" \/ c = "'"
CleanName(name) == SelectSeq(Trim(name), NameCharAllowed)
NameAccepted(name) == ~(Len(CleanName(name)) < 2)

\* the clock of the turn (new Date()), as a calendar day
Today == [y |-> 2026, m |-> 11, d |-> 3]

IsLeap(y) == (y % 4 = 0 /\ y % 100 # 0) \/ y % 400 = 0
DaysInMonth(y, m) ==
  IF m = 2 THEN (IF IsLeap(y) THEN 29 ELSE 28)
  ELSE IF m \in {4, 6, 9, 11} THEN 30 ELSE 31

\* new Date(year, monthIndex, day): a two-digit year is taken in 1900..1999,
\* and an out-of-range month index or day rolls over into the neighbouring
\* months and years.  The result has m in 1..12.
RECURSIVE RollDays(_, _, _)
RollDays(y, m, d) ==
  IF d < 1 THEN
    LET pm == IF m = 1 THEN 12 ELSE m - 1
        py == IF m = 1 THEN y - 1 ELSE y
    IN  RollDays(py, pm, d + DaysInMonth(py, pm))
  ELSE IF d > DaysInMonth(y, m) THEN
    RollDays(IF m = 12 THEN y + 1 ELSE y, IF m = 12 THEN 1 ELSE m + 1,
             d - DaysInMonth(y, m))
  ELSE [y |-> y, m |-> m, d |-> d]

NewDate(year, monthIndex, day) ==
  LET y0 == IF year >= 0 /\ year <= 99 THEN 1900 + year ELSE year
      \* floor division of the month index, also for -1
      yc == IF monthIndex < 0 THEN y0 - 1 ELSE y0 + (monthIndex \div 12)
      mi == IF monthIndex < 0 THEN monthIndex + 12 ELSE monthIndex % 12
  IN  RollDays(yc, mi + 1, day)

\* birthDate > now, now being some instant of Today
DateAfter(a, b) ==
  \/ a.y > b.y
  \/ a.y = b.y /\ a.m > b.m
  \/ a.y = b.y /\ a.m = b.m /\ a.d > b.d

IsDateSep(c) == c \in {"/", "-", "."}
AllDigits(s, i, n) ==
  /\ i + n - 1 <= Len(s)
  /\ \A k \in 0..(n - 1) : IsDigit(s[i + k])

\* /(\d{1,2})[\/\-\.](\d{1,2})[\/\-\.](\d{4})/ anchored at position i with
\* a day of dl digits and a month of ml digits
DateMatchAt(s, i, dl, ml) ==
  /\ AllDigits(s, i, dl)
  /\ i + dl <= Len(s) /\ IsDateSep(s[i + dl])
  /\ AllDigits(s, i + dl + 1, ml)
  /\ i + dl + 1 + ml <= Len(s) /\ IsDateSep(s[i + dl + 1 + ml])
  /\ AllDigits(s, i + dl + ml + 2, 4)

DateLens == <<<<2, 2>>, <<2, 1>>, <<1, 2>>, <<1, 1>>>>
DateMatchesAt(s, i) == \E k \in 1..4 : DateMatchAt(s, i, DateLens[k][1], DateLens[k][2])

\* input.match(...): the leftmost match, the greedy alternative first;
\* <<>> when there is no match, else <<day, month, year>> as strings
DateMatch(s) ==
  IF ~(\E i \in 1..Len(s) : DateMatchesAt(s, i)) THEN <<>>
  ELSE LET i == CHOOSE p \in 1..Len(s) :
                   DateMatchesAt(s, p) /\ \A q \in 1..(p - 1) : ~DateMatchesAt(s, q)
           k == CHOOSE a \in 1..4 :
                   /\ DateMatchAt(s, i, DateLens[a][1], DateLens[a][2])
                   /\ \A b \in 1..(a - 1) : ~DateMatchAt(s, i, DateLens[b][1], DateLens[b][2])
           dl == DateLens[k][1]
           ml == DateLens[k][2]
       IN  << SubSeq(s, i, i + dl - 1),
              SubSeq(s, i + dl + 1, i + dl + ml),
              SubSeq(s, i + dl + ml + 2, i + dl + ml + 5) >>

\* a validation that does not compare the constructed date with the input
ValidateBirthDate_NoEcho(dateMatch) ==
  IF dateMatch = <<>> THEN [kind |-> "dateFormat"]
  ELSE LET day == ParseInt(dateMatch[1])
           month == ParseInt(dateMatch[2])
           year == ParseInt(dateMatch[3])
           birthDate == NewDate(year, month - 1, day)
       IN  IF DateAfter(birthDate, Today) THEN [kind |-> "dateFuture"]
           ELSE IF birthDate.y < 1900 THEN [kind |-> "datePre1900"]
           ELSE [kind |-> "ok", birthDate |-> birthDate,
                 day |-> dateMatch[1], month |-> dateMatch[2], year |-> dateMatch[3]]

\* The validation part of handleBirthDateInput, for the groups dateMatch of
\* the match (<<>> when input.match returned null): the rejection reason or
\* "ok"
ValidateBirthDate(dateMatch) ==
  IF dateMatch = <<>> THEN [kind |-> "dateFormat"]
  ELSE LET day == ParseInt(dateMatch[1])
           month == ParseInt(dateMatch[2])
           year == ParseInt(dateMatch[3])
           birthDate == NewDate(year, month - 1, day)
       IN  IF \/ birthDate.d # day
              \/ birthDate.m - 1 # month - 1
              \/ birthDate.y # year
             THEN [kind |-> "dateInvalid"]
           ELSE IF DateAfter(birthDate, Today) THEN [kind |-> "dateFuture"]
           ELSE IF birthDate.y < 1900 THEN [kind |-> "datePre1900"]
           ELSE [kind |-> "ok", birthDate |-> birthDate,
                 day |-> dateMatch[1], month |-> dateMatch[2], year |-> dateMatch[3]]

\* const dateMatch = input.match(...), matched once, and its validation
BirthDateResult(input) ==
  CHOOSE res \in {ValidateBirthDate(dateMatch) : dateMatch \in {DateMatch(input)}} : TRUE

\* /(\d{1,2}):(\d{2})/ anchored at position i with an hour of hl digits
TimeMatchAt(s, i, hl) ==
  /\ AllDigits(s, i, hl)
  /\ i + hl <= Len(s) /\ s[i + hl] = ":"
  /\ AllDigits(s, i + hl + 1, 2)

TimeMatchesAt(s, i) == TimeMatchAt(s, i, 2) \/ TimeMatchAt(s, i, 1)

TimeMatch(s) ==
  IF ~(\E i \in 1..Len(s) : TimeMatchesAt(s, i)) THEN <<>>
  ELSE LET i == CHOOSE p \in 1..Len(s) :
                   TimeMatchesAt(s, p) /\ \A q \in 1..(p - 1) : ~TimeMatchesAt(s, q)
           hl == IF TimeMatchAt(s, i, 2) THEN 2 ELSE 1
       IN  << SubSeq(s, i, i + hl - 1), SubSeq(s, i + hl + 1, i + hl + 2) >>

\* The parsing part of handleBirthTimeInput
BirthTimeResult(input) ==
  IF Includes(ToLower(input), KwUnknown) \/ Includes(ToLower(input), KwDontKnow)
    THEN [kind |-> "ok", birthTime |-> <<"1", "2", ":", "0", "0">>]
  ELSE LET tm == TimeMatch(input)
       IN  IF tm = <<>> THEN [kind |-> "timeFormat"]
           ELSE LET h == ParseInt(tm[1])
                    m == ParseInt(tm[2])
                IN  IF h < 0 \/ h > 23 \/ m < 0 \/ m > 59
                      THEN [kind |-> "timeInvalid"]
                    ELSE [kind |-> "ok",
                          birthTime |-> PadStart2(tm[1]) \o <<":">> \o tm[2]]

\* input.trim() and the length test of handleBirthPlaceInput
PlaceAccepted(input) == ~(Len(Trim(input)) < 2)


(***************************************************************************)
(* AstrologyService: geocoding and chart computation.                      *)
(***************************************************************************)
zodiacSigns == <<"Aries", "Taurus", "Gemini", "Cancer", "Leo", "Virgo",
                 "Libra", "Scorpio", "Sagittarius", "Capricorn", "Aquarius", "Pisces">>

\* zodiacSigns[i] of the code (0-based); an index outside 0..11 reads undefined
SignAt(i) == IF i >= 0 /\ i <= 11 THEN zodiacSigns[i + 1] ELSE "undefined"
\* zodiacSigns.indexOf(sign)
SignIndexOf(sign) ==
  IF \E i \in 1..12 : zodiacSigns[i] = sign
    THEN (CHOOSE i \in 1..12 : zodiacSigns[i] = sign) - 1
    ELSE -1

zodiacDates == <<
  [sign |-> "Capricorn",   start |-> <<1, 1>>,   end |-> <<1, 19>>],
  [sign |-> "Aquarius",    start |-> <<1, 20>>,  end |-> <<2, 18>>],
  [sign |-> "Pisces",      start |-> <<2, 19>>,  end |-> <<3, 20>>],
  [sign |-> "Aries",       start |-> <<3, 21>>,  end |-> <<4, 19>>],
  [sign |-> "Taurus",      start |-> <<4, 20>>,  end |-> <<5, 20>>],
  [sign |-> "Gemini",      start |-> <<5, 21>>,  end |-> <<6, 20>>],
  [sign |-> "Cancer",      start |-> <<6, 21>>,  end |-> <<7, 22>>],
  [sign |-> "Leo",         start |-> <<7, 23>>,  end |-> <<8, 22>>],
  [sign |-> "Virgo",       start |-> <<8, 23>>,  end |-> <<9, 22>>],
  [sign |-> "Libra",       start |-> <<9, 23>>,  end |-> <<10, 22>>],
  [sign |-> "Scorpio",     start |-> <<10, 23>>, end |-> <<11, 21>>],
  [sign |-> "Sagittarius", start |-> <<11, 22>>, end |-> <<12, 21>>],
  [sign |-> "Capricorn",   start |-> <<12, 22>>, end |-> <<12, 31>>] >>

\* a range test that leaves out the first day of the range
ZodiacRangeHas_StartExcluded(z, month, day) ==
  LET afterStart == month > z.start[1] \/ (month = z.start[1] /\ day > z.start[2])
      beforeEnd == month < z.end[1] \/ (month = z.end[1] /\ day <= z.end[2])
  IN  afterStart /\ beforeEnd

ZodiacRangeHas(z, month, day) ==
  LET afterStart == month > z.start[1] \/ (month = z.start[1] /\ day >= z.start[2])
      beforeEnd == month < z.end[1] \/ (month = z.end[1] /\ day <= z.end[2])
  IN  afterStart /\ beforeEnd

\* getZodiacSign: the first table range holding the day, else Capricorn.
\* The process time zone is taken to be UTC, so that getMonth/getDate of the
\* stored date are its own month and day.
getZodiacSign(date) ==
  IF \E i \in 1..13 : ZodiacRangeHas(zodiacDates[i], date.m, date.d)
    THEN zodiacDates[CHOOSE i \in 1..13 :
                       /\ ZodiacRangeHas(zodiacDates[i], date.m, date.d)
                       /\ \A j \in 1..(i - 1) : ~ZodiacRangeHas(zodiacDates[j], date.m, date.d)].sign
    ELSE "Capricorn"

\* Days from 1970-01-01 to the date (date.getTime() / 86400000), negative
\* before the epoch
DaysBeforeYear(y) ==
  LET p == y - 1 IN 365 * p + (p \div 4) - (p \div 100) + (p \div 400)
RECURSIVE DaysBeforeMonth(_, _)
DaysBeforeMonth(y, m) ==
  IF m = 1 THEN 0 ELSE DaysBeforeMonth(y, m - 1) + DaysInMonth(y, m - 1)
DaysSinceEpoch(date) ==
  (DaysBeforeYear(date.y) + DaysBeforeMonth(date.y, date.m) + date.d)
    - (DaysBeforeYear(1970) + 1)

\* JavaScript %: the remainder has the sign of the dividend
JsRem(a, b) == IF a >= 0 THEN a % b ELSE -((-a) % b)

\* Math.floor(((getTime() / (28 days)) % 1) * 12)
MoonSignIndex(date) == (JsRem(DaysSinceEpoch(date), 28) * 12) \div 28

\* Math.floor((sunSignIndex + (hours + minutes / 60) / 2) % 12)
AscendantIndex(sunSignIndex, hours, minutes) ==
  ((120 * sunSignIndex + 60 * hours + minutes) \div 120) % 12

\* getAdjacentSign
getAdjacentSign(sign, offset) == SignAt((SignIndexOf(sign) + offset + 12) % 12)

createBasicPlanets(sunSign, moonSign) == <<
  [planet |-> "Sun",     sign |-> sunSign, degree |-> 15, house |-> 1, isRetrograde |-> FALSE],
  [planet |-> "Moon",    sign |-> moonSign, degree |-> 15, house |-> 4, isRetrograde |-> FALSE],
  [planet |-> "Mercury", sign |-> sunSign, degree |-> 10, house |-> 1, isRetrograde |-> FALSE],
  [planet |-> "Venus",   sign |-> getAdjacentSign(sunSign, -1), degree |-> 20, house |-> 12, isRetrograde |-> FALSE],
  [planet |-> "Mars",    sign |-> getAdjacentSign(sunSign, 2), degree |-> 5, house |-> 3, isRetrograde |-> FALSE],
  [planet |-> "Jupiter", sign |-> getAdjacentSign(sunSign, 4), degree |-> 12, house |-> 5, isRetrograde |-> FALSE],
  [planet |-> "Saturn",  sign |-> getAdjacentSign(sunSign, 6), degree |-> 25, house |-> 7, isRetrograde |-> FALSE] >>

createBasicHouses(ascendant) ==
  LET ascIndex == SignIndexOf(ascendant)
  IN  [i \in 1..12 |-> [house |-> i, sign |-> SignAt((ascIndex + (i - 1)) % 12), degree |-> 0]]

\* a calculateBasicChart that estimates the moon from the current time, as
\* getCurrentTransits estimates the sun
calculateBasicChart_ReadsClock(birthDate, hours, minutes) ==
  CHOOSE chart \in
    {[sunSign |-> sunSign, moonSign |-> moonSign, ascendant |-> ascendant,
      planets |-> createBasicPlanets(sunSign, moonSign),
      houses |-> createBasicHouses(ascendant),
      aspects |-> <<>>, method |-> "basic_calculation"] :
       sunSign \in {getZodiacSign(birthDate)},
       moonSign \in {SignAt(auth.now % 12)},
       ascendant \in {SignAt(AscendantIndex(SignIndexOf(getZodiacSign(birthDate)),
                                            hours, minutes))}} : TRUE

\* calculateBasicChart: sunSign, moonSign and ascendant are computed once
\* (const), planets and houses from them
calculateBasicChart(birthDate, hours, minutes) ==
  CHOOSE chart \in
    {[sunSign |-> sunSign, moonSign |-> moonSign, ascendant |-> ascendant,
      planets |-> createBasicPlanets(sunSign, moonSign),
      houses |-> createBasicHouses(ascendant),
      aspects |-> <<>>, method |-> "basic_calculation"] :
       sunSign \in {getZodiacSign(birthDate)},
       moonSign \in {SignAt(MoonSignIndex(birthDate))},
       ascendant \in {SignAt(AscendantIndex(SignIndexOf(getZodiacSign(birthDate)),
                                            hours, minutes))}} : TRUE

\* What the chart provider can answer to a chart request: a payload with
\* planet and house positions, possibly without any
ProviderData == {
  [planet_positions |-> << [name |-> "Sun", rasi |-> "Leo"], [name |-> "Moon", rasi |-> "Virgo"] >>,
   house_positions |-> << [rasi |-> "Libra"] >>],
  [planet_positions |-> <<>>, house_positions |-> <<>>] }
\* The ways the provider path can fail: token exchange, chart request, a
\* response without the data member
ProviderErrors == {"authError", "networkError", "parseError"}
\* An outcome of the provider path: [error |-> e] or [data |-> payload]
ProviderOutcomes ==
  {[error |-> e] : e \in ProviderErrors} \cup {[data |-> d] : d \in ProviderData}
ProviderFailed(provider) == "error" \in DOMAIN provider

parseProkeralaPlanets(positions) ==
  [i \in 1..Len(positions) |->
     [planet |-> positions[i].name, sign |-> positions[i].rasi,
      degree |-> 0, house |-> 1, isRetrograde |-> FALSE]]
parseProkeralaHouses(houses) ==
  [i \in 1..Len(houses) |-> [house |-> i, sign |-> houses[i].rasi, degree |-> 0]]

\* planets.find(p => p.planet === name)?.sign || dflt
PlanetSignOr(planets, name, dflt) ==
  IF \E i \in 1..Len(planets) : planets[i].planet = name
    THEN planets[CHOOSE i \in 1..Len(planets) :
                   planets[i].planet = name
                   /\ \A j \in 1..(i - 1) : planets[j].planet # name].sign
    ELSE dflt

\* The chart built by fetchFromProkerala from a provider payload
fetchFromProkerala(data, birthDate) ==
  LET planets == parseProkeralaPlanets(data.planet_positions)
      houses == parseProkeralaHouses(data.house_positions)
  IN  [sunSign |-> PlanetSignOr(planets, "Sun", getZodiacSign(birthDate)),
       moonSign |-> PlanetSignOr(planets, "Moon", "Unknown"),
       ascendant |-> IF Len(houses) >= 1 THEN houses[1].sign ELSE "Unknown",
       planets |-> planets, houses |-> houses,
       aspects |-> <<>>, method |-> "prokerala"]

\* user.birthTime.split(':').map(Number): hours and minutes
SplitTime(birthTime) ==
  LET c == CHOOSE i \in 1..Len(birthTime) :
               birthTime[i] = ":" /\ \A j \in 1..(i - 1) : birthTime[j] # ":"
  IN  << ParseInt(SubSeq(birthTime, 1, c - 1)), ParseInt(SubSeq(birthTime, c + 1, c + 2)) >>

\* The chart generateNatalChart computes for a profile, given what the
\* provider path did: the provider's chart, or the fallback when it raised
NatalChartFor(user, provider) ==
  LET birthDate == user.birthDate[1]
      hm == SplitTime(user.birthTime[1])
  IN  IF ProviderFailed(provider)
        THEN calculateBasicChart(birthDate, hm[1], hm[2])
        ELSE fetchFromProkerala(provider.data, birthDate)

\* chartRepository.save(chart) is refused by the database when one of the
\* columns sunSign, moonSign, ascendant (all NOT NULL) has no value: the
\* error leaves generateNatalChart
SaveRejects(chart) ==
  "undefined" \in {chart.sunSign, chart.moonSign, chart.ascendant}

\* What the place search and the time zone lookup can do
GeoErrors == {"noCandidates", "searchThrows"}
TzOutcomes == {"zone", "noZone", "lookupThrows"}
CandRome == [lat |-> 41, lon |-> 12, display_name |-> <<"R", "o", "m", "e">>]
CandUnnamed == [lat |-> 0, lon |-> -8, display_name |-> <<>>]
\* The successful searches of the model: a named candidate whose time zone
\* is found, and an unnamed one on the equator whose time zone lookup throws
GeoFound == {<<CandRome, "zone">>, <<CandUnnamed, "lookupThrows">>}

\* getTimezone
getTimezone(lon, tz) ==
  IF tz = "zone" THEN <<"Europe/Rome">>
  ELSE IF tz = "noZone" THEN <<"UTC">>
  ELSE LET offset == (2 * lon + 15) \div 30       \* Math.round(lon / 15)
       IN  <<"Etc/GMT", IF offset >= 0 THEN "-" ELSE "+",
             IF offset >= 0 THEN offset ELSE -offset>>

\* geocodeLocation on a found candidate
GeoLocationOf(cand, tz) ==
  [latitude |-> cand.lat, longitude |-> cand.lon,
   timezone |-> getTimezone(cand.lon, tz), formattedAddress |-> cand.display_name]

\* The answers of the place search: no data or an empty list, a raised
\* error, or a list whose first candidate is one of four places (east and
\* west of Greenwich, one within half an hour of it, one just past the
\* middle between two hours)
CandWest == [lat |-> -33, lon |-> -113, display_name |-> <<"W">>]
CandHalf == [lat |-> 5, lon |-> 23, display_name |-> <<"H">>]
GeoCandidates == {CandRome, CandUnnamed, CandWest, CandHalf}
SearchOutcomes == {[error |-> e] : e \in GeoErrors} \cup {[cand |-> c] : c \in GeoCandidates}
SearchFailed(search) == "error" \in DOMAIN search

\* a geocodeLocation that calls getTimezone without its catch
geocodeLocation_TimezoneFatal(search, tz) ==
  IF SearchFailed(search) \/ tz = "lookupThrows" THEN [error |-> "Could not geocode location"]
  ELSE GeoLocationOf(search.cand, tz)

\* geocodeLocation: the location, or the error its catch raises
geocodeLocation(search, tz) ==
  IF SearchFailed(search) THEN [error |-> "Could not geocode location"]
  ELSE GeoLocationOf(search.cand, tz)


(***************************************************************************)
(* AiService: the language-model calls and their local templates.          *)
(***************************************************************************)
\* What a chat-completion call can do: answer with a text, answer with an
\* empty content, or raise
LlmOutcomes == {"text", "empty", "throws"}

KwLove == <<"l", "o", "v", "e">>
KwRelationship == <<"r", "e", "l", "a", "t", "i", "o", "n", "s", "h", "i", "p">>
KwCareer == <<"c", "a", "r", "e", "e", "r">>
KwWork == <<"w", "o", "r", "k">>
KwJob == <<"j", "o", "b">>

\* chart?.sunSign || dflt, for the optional chart of a user
ChartFieldOr(natalChart, field, dflt) ==
  IF natalChart = <<>> THEN dflt ELSE natalChart[1][field]

getFallbackInterpretation(chart) ==
  [kind |-> "fallbackInterpretation", sunSign |-> chart.sunSign,
   moonSign |-> chart.moonSign, ascendant |-> chart.ascendant]

\* interpretNatalChart
interpretNatalChart(chart, configured, llm) ==
  IF ~configured THEN getFallbackInterpretation(chart)
  ELSE IF llm = "text" THEN [kind |-> "llmInterpretation"]
  ELSE getFallbackInterpretation(chart)

\* a getFallbackAdvice that looks for the career words first
getFallbackAdvice_CareerFirst(user, question) ==
  LET sunSign == ChartFieldOr(user.natalChart, "sunSign", "your sign")
      moonSign == ChartFieldOr(user.natalChart, "moonSign", "emotional")
      questionLower == ToLower(question)
  IN  IF \/ Includes(questionLower, KwCareer)
         \/ Includes(questionLower, KwWork)
         \/ Includes(questionLower, KwJob)
        THEN [kind |-> "careerTemplate", sunSign |-> sunSign]
      ELSE IF Includes(questionLower, KwLove) \/ Includes(questionLower, KwRelationship)
        THEN [kind |-> "loveTemplate", sunSign |-> sunSign, moonSign |-> moonSign]
      ELSE [kind |-> "generalTemplate", sunSign |-> sunSign, moonSign |-> moonSign,
            name |-> user.name]

\* getFallbackAdvice
getFallbackAdvice(user, question) ==
  LET sunSign == ChartFieldOr(user.natalChart, "sunSign", "your sign")
      moonSign == ChartFieldOr(user.natalChart, "moonSign", "emotional")
      questionLower == ToLower(question)
  IN  IF Includes(questionLower, KwLove) \/ Includes(questionLower, KwRelationship)
        THEN [kind |-> "loveTemplate", sunSign |-> sunSign, moonSign |-> moonSign]
      ELSE IF \/ Includes(questionLower, KwCareer)
              \/ Includes(questionLower, KwWork)
              \/ Includes(questionLower, KwJob)
        THEN [kind |-> "careerTemplate", sunSign |-> sunSign]
      ELSE [kind |-> "generalTemplate", sunSign |-> sunSign, moonSign |-> moonSign,
            name |-> user.name]

\* Array.prototype.slice(-n)
SliceLast(seq, n) ==
  IF Len(seq) <= n THEN seq ELSE SubSeq(seq, Len(seq) - n + 1, Len(seq))
\* Array.prototype.reverse
Reverse(seq) == [i \in 1..Len(seq) |-> seq[Len(seq) + 1 - i]]

\* The message list getPersonalizedAdvice sends to the provider
AdviceMessages(user, question, messageHistory) ==
  LET recentHistory == Reverse(SliceLast(messageHistory, 8))
  IN  << [role |-> "system", content |-> [kind |-> "advisorSystemPrompt"]] >>
      \o [i \in 1..Len(recentHistory) |->
            [role |-> IF recentHistory[i].role = "user" THEN "user" ELSE "assistant",
             content |-> recentHistory[i].content]]
      \o << [role |-> "user", content |-> [kind |-> "text", text |-> question]] >>

\* a getPersonalizedAdvice without the catch around the provider call
getPersonalizedAdvice_ErrorEscapes(user, question, configured, llm) ==
  IF ~configured THEN getFallbackAdvice(user, question)
  ELSE IF llm = "text" THEN [kind |-> "llmAdvice"]
  ELSE IF llm = "empty" THEN [kind |-> "troubleThinking"]
  ELSE [kind |-> "exception"]

\* getPersonalizedAdvice
getPersonalizedAdvice(user, question, configured, llm) ==
  IF ~configured THEN getFallbackAdvice(user, question)
  ELSE IF llm = "text" THEN [kind |-> "llmAdvice"]
  ELSE IF llm = "empty" THEN [kind |-> "troubleThinking"]
  ELSE getFallbackAdvice(user, question)

getFallbackDailyHoroscope(user) ==
  [kind |-> "fallbackHoroscope",
   sunSign |-> ChartFieldOr(user.natalChart, "sunSign", "cosmic"),
   moonSign |-> ChartFieldOr(user.natalChart, "moonSign", "emotional")]

\* a getDailyHoroscope that fetches the transits before it looks for the chart
DailyHoroscopeCalls_TransitsFirst(user, configured) ==
  <<"getCurrentTransits">>
    \o (IF user.natalChart # <<>> /\ configured THEN <<"chat.completions.create">> ELSE <<>>)

\* the calls getDailyHoroscope makes: none for a user without a chart, else
\* getCurrentTransits and, with a client, the provider
DailyHoroscopeCalls(user, configured) ==
  IF user.natalChart = <<>> THEN <<>>
  ELSE <<"getCurrentTransits">>
         \o (IF configured THEN <<"chat.completions.create">> ELSE <<>>)

\* getDailyHoroscope
getDailyHoroscope(user, configured, llm) ==
  IF user.natalChart = <<>> THEN [kind |-> "noChartYet"]
  ELSE IF ~configured THEN getFallbackDailyHoroscope(user)
  ELSE IF llm = "text" THEN [kind |-> "llmHoroscope"]
  ELSE getFallbackDailyHoroscope(user)

Users == {"A", "B"}
Tasks == {1, 2}

ConversationState == {"NEW", "AWAITING_NAME", "AWAITING_BIRTH_DATE", "AWAITING_BIRTH_TIME",
                      "AWAITING_BIRTH_PLACE", "CHART_READY", "CHATTING"}

\* userRepository.create({phoneNumber, conversationState: NEW}) once saved;
\* a nullable column is <<>> (null) or <<value>>
NewUser(id, phoneNumber) ==
  [id |-> id, phoneNumber |-> phoneNumber, name |-> <<>>, birthDate |-> <<>>,
   birthTime |-> <<>>, birthPlace |-> <<>>, birthLatitude |-> <<>>,
   birthLongitude |-> <<>>, timezone |-> <<>>, conversationState |-> "NEW",
   natalChart |-> <<>>]

IdleTask ==
  [pc |-> "idle", user |-> <<>>, messageText |-> <<>>, place |-> <<>>,
   location |-> <<>>, updatedUser |-> <<>>, provider |-> <<>>, chart |-> <<>>,
   history |-> <<>>, llmMessages |-> <<>>, response |-> <<>>, returned |-> <<>>,
   trace |-> <<>>, status |-> <<>>, phoneNumber |-> <<>>]

NotRunning == {"idle", "done", "failed"}

\* userRepository.findOne({where: {id}}) finds a row
UserExists(id) == \E a \in Users : users[a] # <<>> /\ users[a][1].id = id
UserById(us, id) == us[CHOOSE a \in Users : us[a] # <<>> /\ us[a][1].id = id][1]

\* userRepository.update(id, fields): the row with that id, if any, changed
RepoUpdate(us, id, Change(_)) ==
  [a \in Users |-> IF us[a] # <<>> /\ us[a][1].id = id THEN <<Change(us[a][1])>> ELSE us[a]]

\* messageRepository.save(messageRepository.create({userId, role, content}))
\* JavaScript truthiness of a nullable text column and of a nullable numeric
\* column: null and '' are falsy, null and 0 are falsy
TruthyText(column) == column # <<>> /\ column[1] # <<>>
TruthyNumber(column) == column # <<>> /\ column[1] # 0

\* truthiness of the birthDate member: a Date object (or a non-empty date
\* text) is truthy, null and '' are falsy
TruthyDate(column) == column # <<>> /\ DOMAIN column[1] # {}

\* a hasCompleteBirthData that tests the coordinates for null only
hasCompleteBirthData_ZeroPresent(user) ==
  /\ TruthyDate(user.birthDate)
  /\ TruthyText(user.birthTime)
  /\ TruthyText(user.birthPlace)
  /\ user.birthLatitude # <<>>
  /\ user.birthLongitude # <<>>

\* UserService.hasCompleteBirthData: !!(birthDate && birthTime && birthPlace
\* && birthLatitude && birthLongitude)
hasCompleteBirthData(user) ==
  /\ TruthyDate(user.birthDate)
  /\ TruthyText(user.birthTime)
  /\ TruthyText(user.birthPlace)
  /\ TruthyNumber(user.birthLatitude)
  /\ TruthyNumber(user.birthLongitude)

saveMessage(log, userId, role, content) ==
  Append(log, [userId |-> userId, role |-> role, content |-> content])

\* a getRecentMessages without the where clause
getRecentMessages_AllUsers(log, userId, limit) ==
  LET desc == Reverse(log)
  IN  IF Len(desc) <= limit THEN desc ELSE SubSeq(desc, 1, limit)

\* getRecentMessages: the user's messages, newest first, at most limit
getRecentMessages(log, userId, limit) ==
  LET own == SelectSeq(log, LAMBDA e : e.userId = userId)
      desc == Reverse(own)
  IN  IF Len(desc) <= limit THEN desc ELSE SubSeq(desc, 1, limit)


(***************************************************************************)
(* Message bodies the channel delivers.  In each onboarding state: the     *)
(* text "reset" (which is a name and a place like any other), an input the *)
(* handler rejects and, where "reset" is rejected, one it accepts; in the  *)
(* chat states: every command, in several spellings, messages matching     *)
(* several commands, and a question.                                       *)
(***************************************************************************)
TxtAl == <<"A", "l">>
TxtSeven == <<"7">>
TxtDate == <<"2", "5", "/", "1", "2", "/", "1", "9", "9", "0">>
TxtTime == <<"9", ":", "3", "0">>
TxtReset == <<"r", "e", "s", "e", "t">>
TxtMenu == <<"m", "e", "n", "u">>
TxtHelpUp == <<" ", "H", "E", "L", "P", " ">>
TxtStartOver == <<" ", "S", "t", "a", "r", "t", " ", "O", "v", "e", "r", " ">>
TxtResetMyChart == <<"r", "e", "s", "e", "t", " ", "m", "y", " ", "c", "h", "a", "r", "t">>
TxtMenuHoroscope == <<"m", "e", "n", "u", " ", "h", "o", "r", "o", "s", "c", "o", "p", "e">>
TxtSummaryToday == <<"s", "u", "m", "m", "a", "r", "y", " ", "t", "o", "d", "a", "y">>
TxtLove == <<"l", "o", "v", "e", "?">>

ChatBodies == {TxtMenu, TxtHelpUp, TxtReset, TxtStartOver,
               TxtResetMyChart, TxtMenuHoroscope, TxtSummaryToday, TxtLove}
Bodies(state) ==
  IF state = "NEW" THEN {TxtAl, TxtReset}
  ELSE IF state = "AWAITING_NAME" THEN {TxtSeven, TxtReset}
  ELSE IF state = "AWAITING_BIRTH_DATE" THEN {TxtDate, TxtSeven, TxtReset}
  ELSE IF state = "AWAITING_BIRTH_TIME" THEN {TxtTime, TxtSeven, TxtReset}
  ELSE IF state = "AWAITING_BIRTH_PLACE" THEN {TxtAl, TxtSeven, TxtReset}
  ELSE ChatBodies

(***************************************************************************)
(* Replies.                                                                *)
(***************************************************************************)
WelcomeReply == [kind |-> "welcome"]
GeocodeFailedReply == [kind |-> "couldntFindLocation"]
\* "Starting over! Let's create a new chart. What's your name?"
ResetReply == [kind |-> "startingOver", asks |-> "name"]
MenuReply == [kind |-> "menu"]

\* getChartSummary
getChartSummary(user) ==
  IF user.natalChart = <<>> THEN [kind |-> "noChartFound"]
  ELSE [kind |-> "chartSummary", name |-> user.name, birthDate |-> user.birthDate,
        birthTime |-> user.birthTime, birthPlace |-> user.birthPlace,
        sunSign |-> user.natalChart[1].sunSign, moonSign |-> user.natalChart[1].moonSign,
        ascendant |-> user.natalChart[1].ascendant]

\* location.formattedAddress || place
AddressOr(formattedAddress, place) == IF formattedAddress # <<>> THEN formattedAddress ELSE place

(***************************************************************************)
(* How a step of a turn ends.                                              *)
(***************************************************************************)
\* the handler returns resp: processMessage goes on to save the reply
Respond(t, resp, events) ==
  tasks' = [tasks EXCEPT ![t].response = <<resp>>, ![t].pc = "saveAssistant",
                         ![t].trace = @ \o events]
\* findById throws 'User not found' and nothing catches it: the error
\* leaves processMessage and nothing more of the turn runs
Raise(t, events) ==
  tasks' = [tasks EXCEPT ![t].pc = "failed", ![t].trace = @ \o events \o <<"User not found">>]

(***************************************************************************)
(* WhatsappService.processIncomingMessage up to the call of processMessage *)
(* (Body.trim(), findOrCreateByPhone), one turn at a time.                 *)
(***************************************************************************)
ReceiveBody(t, a, body) ==
  LET user == IF users[a] = <<>> THEN NewUser(nextId, a) ELSE users[a][1]
  IN  /\ \A o \in Tasks : tasks[o].pc \in NotRunning
      /\ turns < MaxTurns
      /\ users' = [users EXCEPT ![a] = <<user>>]
      /\ nextId' = IF users[a] = <<>> THEN nextId + 1 ELSE nextId
      /\ tasks' = [tasks EXCEPT ![t] =
                     [IdleTask EXCEPT !.pc = "saveUser", !.user = <<user>>,
                                      !.messageText = Trim(body)]]
      /\ turns' = turns + 1
      /\ UNCHANGED <<messages, openai, auth>>

StateOf(a) == IF users[a] = <<>> THEN "NEW" ELSE users[a][1].conversationState

ReceiveMessage(t, a) == \E body \in Bodies(StateOf(a)) : ReceiveBody(t, a, body)

(***************************************************************************)
(* ConversationService.processMessage                                      *)
(***************************************************************************)
\* a processMessage that chooses the handler without logging the inbound text
SaveUserMessage_NotLogged(t) ==
  /\ tasks[t].pc = "saveUser"
  /\ tasks' = [tasks EXCEPT ![t].pc = "handle", ![t].trace = @ \o <<"saveMessage:user">>]
  /\ UNCHANGED <<users, messages, nextId, turns, openai, auth>>

\* a processMessage that reads the user again before it chooses the handler
SaveUserMessage_Rereads(t) ==
  /\ tasks[t].pc = "saveUser"
  /\ messages' = saveMessage(messages, tasks[t].user[1].id, "user",
                             [kind |-> "text", text |-> tasks[t].messageText])
  /\ tasks' = [tasks EXCEPT ![t].pc = "handle", ![t].trace = @ \o <<"saveMessage:user">>,
                            ![t].user = IF UserExists(tasks[t].user[1].id)
                                          THEN <<UserById(users, tasks[t].user[1].id)>>
                                          ELSE @]
  /\ UNCHANGED <<users, nextId, turns, openai, auth>>

\* await this.saveMessage(user.id, MessageRole.USER, messageText)
SaveUserMessage(t) ==
  /\ tasks[t].pc = "saveUser"
  /\ messages' = saveMessage(messages, tasks[t].user[1].id, "user",
                             [kind |-> "text", text |-> tasks[t].messageText])
  /\ tasks' = [tasks EXCEPT ![t].pc = "handle", ![t].trace = @ \o <<"saveMessage:user">>]
  /\ UNCHANGED <<users, nextId, turns, openai, auth>>

\* a handleNewUser that skips the name prompt
HandleNewUser_SkipsName(t) ==
  LET user == tasks[t].user[1]
  IN  /\ tasks[t].pc = "handle"
      /\ user.conversationState = "NEW"
      /\ users' = RepoUpdate(users, user.id,
                             LAMBDA r : [r EXCEPT !.conversationState = "AWAITING_BIRTH_DATE"])
      /\ IF UserExists(user.id)
           THEN Respond(t, WelcomeReply, <<"handleNewUser", "updateState">>)
           ELSE Raise(t, <<"handleNewUser", "updateState">>)
      /\ UNCHANGED <<messages, nextId, turns, openai, auth>>

\* a handleNewUser that takes the message as the name
HandleNewUser_StoresName(t) ==
  LET user == tasks[t].user[1]
  IN  /\ tasks[t].pc = "handle"
      /\ user.conversationState = "NEW"
      /\ users' = RepoUpdate(users, user.id,
                             LAMBDA r : [r EXCEPT !.name = <<CleanName(tasks[t].messageText)>>,
                                                  !.conversationState = "AWAITING_NAME"])
      /\ IF UserExists(user.id)
           THEN Respond(t, WelcomeReply, <<"handleNewUser", "updateState">>)
           ELSE Raise(t, <<"handleNewUser", "updateState">>)
      /\ UNCHANGED <<messages, nextId, turns, openai, auth>>

\* a handleNewUser that detaches the chart of a returning user
HandleNewUser_DetachesChart(t) ==
  LET user == tasks[t].user[1]
  IN  /\ tasks[t].pc = "handle"
      /\ user.conversationState = "NEW"
      /\ users' = RepoUpdate(users, user.id,
                             LAMBDA r : [r EXCEPT !.natalChart = <<>>,
                                                  !.conversationState = "AWAITING_NAME"])
      /\ IF UserExists(user.id)
           THEN Respond(t, WelcomeReply, <<"handleNewUser", "updateState">>)
           ELSE Raise(t, <<"handleNewUser", "updateState">>)
      /\ UNCHANGED <<messages, nextId, turns, openai, auth>>

\* handleNewUser
HandleNewUser(t) ==
  LET user == tasks[t].user[1]
  IN  /\ tasks[t].pc = "handle"
      /\ user.conversationState = "NEW"
      /\ users' = RepoUpdate(users, user.id,
                             LAMBDA r : [r EXCEPT !.conversationState = "AWAITING_NAME"])
      /\ IF UserExists(user.id)
           THEN Respond(t, WelcomeReply, <<"handleNewUser", "updateState">>)
           ELSE Raise(t, <<"handleNewUser", "updateState">>)
      /\ UNCHANGED <<messages, nextId, turns, openai, auth>>

\* handleNameInput
HandleNameInput(t) ==
  LET user == tasks[t].user[1]
      cleanName == CleanName(tasks[t].messageText)
  IN  /\ tasks[t].pc = "handle"
      /\ user.conversationState = "AWAITING_NAME"
      /\ IF Len(cleanName) < 2
           THEN /\ Respond(t, [kind |-> "nameRetry"], <<"handleNameInput">>)
                /\ UNCHANGED users
           ELSE /\ users' = RepoUpdate(users, user.id,
                              LAMBDA r : [r EXCEPT !.name = <<cleanName>>,
                                                   !.conversationState = "AWAITING_BIRTH_DATE"])
                /\ IF UserExists(user.id)
                     THEN Respond(t, [kind |-> "nameSaved", name |-> cleanName],
                                  <<"handleNameInput", "updateBirthInfo", "updateState">>)
                     ELSE Raise(t, <<"handleNameInput", "updateBirthInfo">>)
      /\ UNCHANGED <<messages, nextId, turns, openai, auth>>

\* handleBirthDateInput
HandleBirthDateInput(t) ==
  LET user == tasks[t].user[1]
      res == BirthDateResult(tasks[t].messageText)
  IN  /\ tasks[t].pc = "handle"
      /\ user.conversationState = "AWAITING_BIRTH_DATE"
      /\ IF res.kind # "ok"
           THEN /\ Respond(t, [kind |-> res.kind], <<"handleBirthDateInput">>)
                /\ UNCHANGED users
           ELSE /\ users' = RepoUpdate(users, user.id,
                              LAMBDA r : [r EXCEPT !.birthDate = <<res.birthDate>>,
                                                   !.conversationState = "AWAITING_BIRTH_TIME"])
                /\ IF UserExists(user.id)
                     THEN Respond(t, [kind |-> "dateSaved", day |-> res.day,
                                      month |-> res.month, year |-> res.year],
                                  <<"handleBirthDateInput", "updateBirthInfo", "updateState">>)
                     ELSE Raise(t, <<"handleBirthDateInput", "updateBirthInfo">>)
      /\ UNCHANGED <<messages, nextId, turns, openai, auth>>

\* a handleBirthTimeInput that stores noon for a time it cannot read
HandleBirthTimeInput_DefaultsNoon(t) ==
  LET user == tasks[t].user[1]
      res == BirthTimeResult(tasks[t].messageText)
      birthTime == IF res.kind # "ok" THEN <<"1", "2", ":", "0", "0">> ELSE res.birthTime
  IN  /\ tasks[t].pc = "handle"
      /\ user.conversationState = "AWAITING_BIRTH_TIME"
      /\ users' = RepoUpdate(users, user.id,
                    LAMBDA r : [r EXCEPT !.birthTime = <<birthTime>>,
                                         !.conversationState = "AWAITING_BIRTH_PLACE"])
      /\ IF UserExists(user.id)
           THEN Respond(t, [kind |-> "timeSaved", birthTime |-> birthTime],
                        <<"handleBirthTimeInput", "updateBirthInfo", "updateState">>)
           ELSE Raise(t, <<"handleBirthTimeInput", "updateBirthInfo">>)
      /\ UNCHANGED <<messages, nextId, turns, openai, auth>>

\* a handleBirthTimeInput that moves on without storing the time
HandleBirthTimeInput_TimeNotStored(t) ==
  LET user == tasks[t].user[1]
      res == BirthTimeResult(tasks[t].messageText)
  IN  /\ tasks[t].pc = "handle"
      /\ user.conversationState = "AWAITING_BIRTH_TIME"
      /\ IF res.kind # "ok"
           THEN /\ Respond(t, [kind |-> res.kind], <<"handleBirthTimeInput">>)
                /\ UNCHANGED users
           ELSE /\ users' = RepoUpdate(users, user.id,
                              LAMBDA r : [r EXCEPT !.conversationState = "AWAITING_BIRTH_PLACE"])
                /\ IF UserExists(user.id)
                     THEN Respond(t, [kind |-> "timeSaved", birthTime |-> res.birthTime],
                                  <<"handleBirthTimeInput", "updateState">>)
                     ELSE Raise(t, <<"handleBirthTimeInput">>)
      /\ UNCHANGED <<messages, nextId, turns, openai, auth>>

\* handleBirthTimeInput
HandleBirthTimeInput(t) ==
  LET user == tasks[t].user[1]
      res == BirthTimeResult(tasks[t].messageText)
  IN  /\ tasks[t].pc = "handle"
      /\ user.conversationState = "AWAITING_BIRTH_TIME"
      /\ IF res.kind # "ok"
           THEN /\ Respond(t, [kind |-> res.kind], <<"handleBirthTimeInput">>)
                /\ UNCHANGED users
           ELSE /\ users' = RepoUpdate(users, user.id,
                              LAMBDA r : [r EXCEPT !.birthTime = <<res.birthTime>>,
                                                   !.conversationState = "AWAITING_BIRTH_PLACE"])
                /\ IF UserExists(user.id)
                     THEN Respond(t, [kind |-> "timeSaved", birthTime |-> res.birthTime],
                                  <<"handleBirthTimeInput", "updateBirthInfo", "updateState">>)
                     ELSE Raise(t, <<"handleBirthTimeInput", "updateBirthInfo">>)
      /\ UNCHANGED <<messages, nextId, turns, openai, auth>>

\* handleBirthPlaceInput up to the call of geocodeLocation
HandleBirthPlaceInput(t) ==
  LET user == tasks[t].user[1]
      place == Trim(tasks[t].messageText)
  IN  /\ tasks[t].pc = "handle"
      /\ user.conversationState = "AWAITING_BIRTH_PLACE"
      /\ IF Len(place) < 2
           THEN Respond(t, [kind |-> "placeRetry"], <<"handleBirthPlaceInput">>)
           ELSE tasks' = [tasks EXCEPT ![t].pc = "geocode", ![t].place = place,
                                       ![t].trace = @ \o <<"handleBirthPlaceInput">>]
      /\ UNCHANGED <<users, messages, nextId, turns, openai, auth>>

\* a handleBirthPlaceInput that keeps the typed place when geocoding fails
GeocodeFails_KeepsPlace(t) ==
  /\ tasks[t].pc = "geocode"
  /\ \E err \in GeoErrors : Respond(t, GeocodeFailedReply, <<"geocodeLocation">>)
  /\ users' = RepoUpdate(users, tasks[t].user[1].id,
                         LAMBDA r : [r EXCEPT !.birthPlace = <<tasks[t].place>>])
  /\ UNCHANGED <<messages, nextId, turns, openai, auth>>

\* await this.astrologyService.geocodeLocation(place) when the search finds
\* nothing or throws: geocodeLocation raises, and the catch of
\* handleBirthPlaceInput returns the reply
GeocodeFails(t) ==
  /\ tasks[t].pc = "geocode"
  /\ \E err \in GeoErrors : Respond(t, GeocodeFailedReply, <<"geocodeLocation">>)
  /\ UNCHANGED <<users, messages, nextId, turns, openai, auth>>

\* await this.astrologyService.geocodeLocation(place), for every answer of
\* the place search and of the time zone lookup; the trace names the
\* answers (the time zone lookup is made only for a found candidate)
GeocodeLocation(t) ==
  /\ tasks[t].pc = "geocode"
  /\ \E search \in SearchOutcomes, tz \in TzOutcomes :
       LET location == geocodeLocation(search, tz)
           calls == IF SearchFailed(search)
                      THEN <<"geocodeLocation", search.error>>
                      ELSE <<"geocodeLocation", "found", tz>>
       IN  IF "error" \in DOMAIN location
             THEN Respond(t, GeocodeFailedReply, calls)
             ELSE tasks' = [tasks EXCEPT ![t].pc = "persistPlace",
                                         ![t].location = <<location>>,
                                         ![t].trace = @ \o calls]
  /\ UNCHANGED <<users, messages, nextId, turns, openai, auth>>

\* ... and when the search finds a candidate
GeocodeFinds(t) ==
  /\ tasks[t].pc = "geocode"
  /\ \E found \in GeoFound :
       tasks' = [tasks EXCEPT ![t].pc = "persistPlace",
                              ![t].location = <<GeoLocationOf(found[1], found[2])>>,
                              ![t].trace = @ \o <<"geocodeLocation">>]
  /\ UNCHANGED <<users, messages, nextId, turns, openai, auth>>

\* a handleBirthPlaceInput that sets CHART_READY together with the place,
\* before the chart is generated
PersistBirthPlace_StateFirst(t) ==
  LET user == tasks[t].user[1]
      location == tasks[t].location[1]
      after == RepoUpdate(users, user.id,
                 LAMBDA r : [r EXCEPT
                    !.birthPlace = <<AddressOr(location.formattedAddress, tasks[t].place)>>,
                    !.birthLatitude = <<location.latitude>>,
                    !.birthLongitude = <<location.longitude>>,
                    !.timezone = <<location.timezone>>,
                    !.conversationState = "CHART_READY"])
  IN  /\ tasks[t].pc = "persistPlace"
      /\ users' = after
      /\ IF UserExists(user.id)
           THEN tasks' = [tasks EXCEPT ![t].pc = "generateChart",
                                       ![t].updatedUser = <<UserById(after, user.id)>>,
                                       ![t].trace = @ \o <<"updateBirthInfo", "findById">>]
           ELSE Respond(t, GeocodeFailedReply, <<"updateBirthInfo", "User not found">>)
      /\ UNCHANGED <<messages, nextId, turns, openai, auth>>

\* await this.userService.updateBirthInfo(user.id, {birthPlace, ...}) and
\* const updatedUser = await this.userService.findById(user.id);
\* a failing lookup is caught by the catch of handleBirthPlaceInput
PersistBirthPlace(t) ==
  LET user == tasks[t].user[1]
      location == tasks[t].location[1]
      after == RepoUpdate(users, user.id,
                 LAMBDA r : [r EXCEPT
                    !.birthPlace = <<AddressOr(location.formattedAddress, tasks[t].place)>>,
                    !.birthLatitude = <<location.latitude>>,
                    !.birthLongitude = <<location.longitude>>,
                    !.timezone = <<location.timezone>>])
  IN  /\ tasks[t].pc = "persistPlace"
      /\ users' = after
      /\ IF UserExists(user.id)
           THEN tasks' = [tasks EXCEPT ![t].pc = "generateChart",
                                       ![t].updatedUser = <<UserById(after, user.id)>>,
                                       ![t].trace = @ \o <<"updateBirthInfo", "findById">>]
           ELSE Respond(t, GeocodeFailedReply, <<"updateBirthInfo", "User not found">>)
      /\ UNCHANGED <<messages, nextId, turns, openai, auth>>

\* a generateNatalChart that lets a response it cannot parse escape (the
\* catch of handleBirthPlaceInput then answers)
GenerateNatalChartOn_ParseErrorEscapes(t, provider) ==
  LET chart == NatalChartFor(tasks[t].updatedUser[1], provider)
      escapes == ProviderFailed(provider) /\ provider.error = "parseError"
  IN  /\ tasks[t].pc = "generateChart"
      /\ IF escapes
           THEN /\ Respond(t, GeocodeFailedReply, <<"generateNatalChart">>)
                /\ UNCHANGED users
           ELSE /\ users' = RepoUpdate(users, tasks[t].updatedUser[1].id,
                                       LAMBDA r : [r EXCEPT !.natalChart = <<chart>>])
                /\ tasks' = [tasks EXCEPT ![t].pc = "setChartReady",
                               ![t].provider = <<provider>>, ![t].chart = <<chart>>,
                               ![t].trace = @ \o <<"generateNatalChart", "chartRepository.save">>]
      /\ UNCHANGED <<messages, nextId, turns, openai, auth>>

\* await this.astrologyService.generateNatalChart(updatedUser), the provider
\* path having had the given outcome: the provider's chart or, when the
\* provider path raised, the fallback chart; chartRepository.save(chart)
\* attaches it to the user, or is refused, and then the catch of
\* handleBirthPlaceInput answers
GenerateNatalChartOn(t, provider) ==
  LET chart == NatalChartFor(tasks[t].updatedUser[1], provider)
  IN  /\ tasks[t].pc = "generateChart"
      /\ IF SaveRejects(chart)
           THEN /\ tasks' = [tasks EXCEPT ![t].pc = "saveAssistant",
                               ![t].provider = <<provider>>, ![t].chart = <<chart>>,
                               ![t].response = <<GeocodeFailedReply>>,
                               ![t].trace = @ \o <<"generateNatalChart", "save rejected">>]
                /\ UNCHANGED users
           ELSE /\ users' = RepoUpdate(users, tasks[t].updatedUser[1].id,
                                       LAMBDA r : [r EXCEPT !.natalChart = <<chart>>])
                /\ tasks' = [tasks EXCEPT ![t].pc = "setChartReady",
                               ![t].provider = <<provider>>, ![t].chart = <<chart>>,
                               ![t].trace = @ \o <<"generateNatalChart", "chartRepository.save">>]
      /\ UNCHANGED <<messages, nextId, turns, openai, auth>>

GenerateNatalChart(t) == \E provider \in ProviderOutcomes : GenerateNatalChartOn(t, provider)

\* await this.userService.updateState(user.id, CHART_READY)
SetChartReady(t) ==
  LET user == tasks[t].user[1]
  IN  /\ tasks[t].pc = "setChartReady"
      /\ users' = RepoUpdate(users, user.id,
                             LAMBDA r : [r EXCEPT !.conversationState = "CHART_READY"])
      /\ IF UserExists(user.id)
           THEN tasks' = [tasks EXCEPT ![t].pc = "interpret",
                                       ![t].trace = @ \o <<"updateState">>]
           ELSE Respond(t, GeocodeFailedReply, <<"updateState", "User not found">>)
      /\ UNCHANGED <<messages, nextId, turns, openai, auth>>

\* an interpretNatalChart that lets the error of the language model escape
\* (the catch of handleBirthPlaceInput then answers)
InterpretNatalChartOn_ErrorEscapes(t, llm) ==
  LET chart == tasks[t].chart[1]
      location == tasks[t].location[1]
  IN  /\ tasks[t].pc = "interpret"
      /\ IF openai /\ llm = "throws"
           THEN Respond(t, GeocodeFailedReply, <<"interpretNatalChart">>)
           ELSE Respond(t, [kind |-> "chartReady",
                            address |-> AddressOr(location.formattedAddress, tasks[t].place),
                            sunSign |-> chart.sunSign, moonSign |-> chart.moonSign,
                            ascendant |-> chart.ascendant,
                            interpretation |-> interpretNatalChart(chart, openai, llm)],
                        <<"interpretNatalChart">>)
      /\ UNCHANGED <<users, messages, nextId, turns, openai, auth>>

\* await this.aiService.interpretNatalChart(chart), the provider call (if
\* one is made) having the given outcome, and the return of the chart-ready
\* reply
InterpretNatalChartOn(t, llm) ==
  LET chart == tasks[t].chart[1]
      location == tasks[t].location[1]
  IN  /\ tasks[t].pc = "interpret"
      /\ Respond(t, [kind |-> "chartReady",
                     address |-> AddressOr(location.formattedAddress, tasks[t].place),
                     sunSign |-> chart.sunSign, moonSign |-> chart.moonSign,
                     ascendant |-> chart.ascendant,
                     interpretation |-> interpretNatalChart(chart, openai, llm)],
                 <<"interpretNatalChart">>)
      /\ UNCHANGED <<users, messages, nextId, turns, openai, auth>>

InterpretNatalChart(t) == \E llm \in LlmOutcomes : InterpretNatalChartOn(t, llm)

\* an if-chain that looks for the horoscope words before the summary words
ChatRoute_HoroscopeFirst(lowerMessage) ==
  IF lowerMessage = KwMenu \/ lowerMessage = KwHelp THEN "menu"
  ELSE IF lowerMessage = KwReset \/ lowerMessage = KwStartOver THEN "reset"
  ELSE IF \/ Includes(lowerMessage, KwToday)
          \/ Includes(lowerMessage, KwDaily)
          \/ Includes(lowerMessage, KwHoroscope) THEN "horoscope"
  ELSE IF Includes(lowerMessage, KwMyChart) \/ Includes(lowerMessage, KwSummary) THEN "summary"
  ELSE "advice"

\* an if-chain that knows "reset" but not "start over"
ChatRoute_ResetOnly(lowerMessage) ==
  IF lowerMessage = KwMenu \/ lowerMessage = KwHelp THEN "menu"
  ELSE IF lowerMessage = KwReset THEN "reset"
  ELSE IF Includes(lowerMessage, KwMyChart) \/ Includes(lowerMessage, KwSummary) THEN "summary"
  ELSE IF \/ Includes(lowerMessage, KwToday)
          \/ Includes(lowerMessage, KwDaily)
          \/ Includes(lowerMessage, KwHoroscope) THEN "horoscope"
  ELSE "advice"

\* an if-chain without the horoscope rule
ChatRoute_NoHoroscope(lowerMessage) ==
  IF lowerMessage = KwMenu \/ lowerMessage = KwHelp THEN "menu"
  ELSE IF lowerMessage = KwReset \/ lowerMessage = KwStartOver THEN "reset"
  ELSE IF Includes(lowerMessage, KwMyChart) \/ Includes(lowerMessage, KwSummary) THEN "summary"
  ELSE "advice"

\* an if-chain that resets on every message containing "reset"
ChatRoute_ResetContained(lowerMessage) ==
  IF lowerMessage = KwMenu \/ lowerMessage = KwHelp THEN "menu"
  ELSE IF Includes(lowerMessage, KwReset) \/ lowerMessage = KwStartOver THEN "reset"
  ELSE IF Includes(lowerMessage, KwMyChart) \/ Includes(lowerMessage, KwSummary) THEN "summary"
  ELSE IF \/ Includes(lowerMessage, KwToday)
          \/ Includes(lowerMessage, KwDaily)
          \/ Includes(lowerMessage, KwHoroscope) THEN "horoscope"
  ELSE "advice"

\* The if-chain of handleChatMessage: the branch taken for lowerMessage
ChatRoute(lowerMessage) ==
  IF lowerMessage = KwMenu \/ lowerMessage = KwHelp THEN "menu"
  ELSE IF lowerMessage = KwReset \/ lowerMessage = KwStartOver THEN "reset"
  ELSE IF Includes(lowerMessage, KwMyChart) \/ Includes(lowerMessage, KwSummary) THEN "summary"
  ELSE IF \/ Includes(lowerMessage, KwToday)
          \/ Includes(lowerMessage, KwDaily)
          \/ Includes(lowerMessage, KwHoroscope) THEN "horoscope"
  ELSE "advice"

\* handleChatMessage
HandleChatMessage(t) ==
  LET user == tasks[t].user[1]
      message == tasks[t].messageText
      lowerMessage == Trim(ToLower(message))
      route == ChatRoute(lowerMessage)
      history == getRecentMessages(messages, user.id, 10)
  IN  /\ tasks[t].pc = "handle"
      /\ user.conversationState \in {"CHART_READY", "CHATTING"}
      /\ IF route = "menu" THEN
           /\ Respond(t, MenuReply, <<"handleChatMessage", "getMenuText">>)
           /\ UNCHANGED users
         ELSE IF route = "reset" THEN
           /\ users' = RepoUpdate(users, user.id,
                                  LAMBDA r : [r EXCEPT !.conversationState = "NEW"])
           /\ IF UserExists(user.id)
                THEN Respond(t, ResetReply, <<"handleChatMessage", "reset", "updateState">>)
                ELSE Raise(t, <<"handleChatMessage", "reset", "updateState">>)
         ELSE IF route = "summary" THEN
           /\ Respond(t, getChartSummary(user), <<"handleChatMessage", "getChartSummary">>)
           /\ UNCHANGED users
         ELSE IF route = "horoscope" THEN
           /\ \E llm \in LlmOutcomes :
                Respond(t, getDailyHoroscope(user, openai, llm),
                        <<"handleChatMessage", "getDailyHoroscope">>
                          \o DailyHoroscopeCalls(user, openai))
           /\ UNCHANGED users
         ELSE IF user.conversationState = "CHART_READY" /\ ~UserExists(user.id) THEN
           /\ Raise(t, <<"handleChatMessage", "updateState">>)
           /\ UNCHANGED users
         ELSE
           /\ users' = IF user.conversationState = "CHART_READY"
                         THEN RepoUpdate(users, user.id,
                                LAMBDA r : [r EXCEPT !.conversationState = "CHATTING"])
                         ELSE users
           /\ \E llm \in LlmOutcomes :
                tasks' = [tasks EXCEPT
                  ![t].response = <<getPersonalizedAdvice(user, message, openai, llm)>>,
                  ![t].history = history,
                  ![t].llmMessages = IF openai THEN AdviceMessages(user, message, history)
                                               ELSE <<>>,
                  ![t].pc = "saveAssistant",
                  ![t].trace = @ \o <<"handleChatMessage">>
                     \o (IF user.conversationState = "CHART_READY"
                           THEN <<"updateState">> ELSE <<>>)
                     \o <<"getRecentMessages", "getPersonalizedAdvice">>]
      /\ UNCHANGED <<messages, nextId, turns, openai, auth>>

\* a processMessage that returns the reply without logging it
SaveAssistantMessage_NotLogged(t) ==
  /\ tasks[t].pc = "saveAssistant"
  /\ tasks' = [tasks EXCEPT ![t].pc = "done", ![t].returned = tasks[t].response,
                            ![t].trace = @ \o <<"saveMessage:assistant">>]
  /\ UNCHANGED <<users, messages, nextId, turns, openai, auth>>

\* await this.saveMessage(user.id, MessageRole.ASSISTANT, response);
\* return response
SaveAssistantMessage(t) ==
  /\ tasks[t].pc = "saveAssistant"
  /\ messages' = saveMessage(messages, tasks[t].user[1].id, "assistant", tasks[t].response[1])
  /\ tasks' = [tasks EXCEPT ![t].pc = "done", ![t].returned = tasks[t].response,
                            ![t].trace = @ \o <<"saveMessage:assistant">>]
  /\ UNCHANGED <<users, nextId, turns, openai, auth>>

(***************************************************************************)
(* The environment removing a user row while a turn runs (a lookup by its  *)
(* id then fails).                                                         *)
(***************************************************************************)
MaxDeletes == 1

DeleteUser(a) ==
  /\ users[a] # <<>>
  /\ nextId <= MaxDeletes + 1
  /\ \E t \in Tasks : tasks[t].pc \notin NotRunning
  /\ users' = [users EXCEPT ![a] = <<>>]
  /\ UNCHANGED <<messages, tasks, nextId, turns, openai, auth>>

(***************************************************************************)
(* AstrologyService.getProkeralaToken: the token cache (prokeralaToken,    *)
(* tokenExpiry) shared by all calls, a clock in seconds, and the calls.    *)
(* The provider's tokens are numbered in the order their responses are     *)
(* handled; responses records them.  Of a call: sentAt is the time it was  *)
(* made, at the time it ended, seen the cache it found, got the token it   *)
(* returned, via where that token came from.                               *)
(***************************************************************************)
MaxClock == 3
MaxTokenCalls == 3
Callers == {1, 2}
\* the expires_in the provider can answer with: below and above the 60 s
\* margin
TokenTtls == {59, 61, 62}

IdleCall == [pc |-> "idle", sentAt |-> 0, at |-> 0, got |-> <<>>, via |-> "none",
             seen |-> [prokeralaToken |-> <<>>, tokenExpiry |-> <<>>]]
NoAuth == [prokeralaToken |-> <<>>, tokenExpiry |-> <<>>, now |-> 0, configured |-> TRUE,
           started |-> 0, responses |-> <<>>, calls |-> [c \in Callers |-> IdleCall]]

\* this.prokeralaToken && this.tokenExpiry && new Date() < this.tokenExpiry
CacheValid(a) ==
  /\ a.prokeralaToken # <<>>
  /\ a.tokenExpiry # <<>>
  /\ a.now < a.tokenExpiry[1]

\* time passes
Tick ==
  /\ auth.now < MaxClock
  /\ auth' = [auth EXCEPT !.now = @ + 1]
  /\ UNCHANGED <<users, messages, tasks, nextId, turns, openai>>

\* getProkeralaToken up to its await: the cached token is returned, or the
\* missing credentials raise, or the token request is sent
GetTokenStart(c) ==
  LET seen == [prokeralaToken |-> auth.prokeralaToken, tokenExpiry |-> auth.tokenExpiry]
  IN  /\ auth.calls[c].pc # "requesting"
      /\ auth.started < MaxTokenCalls
      /\ auth' = [auth EXCEPT
           !.started = @ + 1,
           !.calls[c] =
             IF CacheValid(auth)
               THEN [IdleCall EXCEPT !.pc = "returned", !.got = auth.prokeralaToken,
                                     !.via = "cache", !.sentAt = auth.now,
                                     !.at = auth.now, !.seen = seen]
             ELSE IF ~auth.configured
               THEN [IdleCall EXCEPT !.pc = "threw", !.sentAt = auth.now,
                                     !.at = auth.now, !.seen = seen]
             ELSE [IdleCall EXCEPT !.pc = "requesting", !.sentAt = auth.now, !.seen = seen]]
      /\ UNCHANGED <<users, messages, tasks, nextId, turns, openai>>

\* a continuation that never shortens the expiry it finds in the cache
StoreToken_KeepsLaterExpiry(c, token, ttl) ==
  /\ auth.calls[c].pc = "requesting"
  /\ auth' = [auth EXCEPT
       !.prokeralaToken = <<token>>,
       !.tokenExpiry = IF @ # <<>> /\ @[1] > auth.now + (ttl - 60)
                         THEN @ ELSE <<auth.now + (ttl - 60)>>,
       !.responses = Append(@, [token |-> token, ttl |-> ttl,
                                sentAt |-> auth.calls[c].sentAt, at |-> auth.now]),
       !.calls[c].pc = "returned", !.calls[c].got = <<token>>,
       !.calls[c].via = "provider", !.calls[c].at = auth.now]
  /\ UNCHANGED <<users, messages, tasks, nextId, turns, openai>>

\* the continuation after the await, for a response with access_token and
\* expires_in: prokeralaToken and tokenExpiry are assigned, the token is
\* returned
StoreToken(c, token, ttl) ==
  /\ auth.calls[c].pc = "requesting"
  /\ auth' = [auth EXCEPT
       !.prokeralaToken = <<token>>,
       !.tokenExpiry = <<auth.now + (ttl - 60)>>,
       !.responses = Append(@, [token |-> token, ttl |-> ttl,
                                sentAt |-> auth.calls[c].sentAt, at |-> auth.now]),
       !.calls[c].pc = "returned", !.calls[c].got = <<token>>,
       !.calls[c].via = "provider", !.calls[c].at = auth.now]
  /\ UNCHANGED <<users, messages, tasks, nextId, turns, openai>>

TokenResponse(c) == \E ttl \in TokenTtls : StoreToken(c, Len(auth.responses) + 1, ttl)

\* a catch that forgets the cached token when the request fails
TokenRequestFails_ClearsCache(c) ==
  /\ auth.calls[c].pc = "requesting"
  /\ auth' = [auth EXCEPT !.prokeralaToken = <<>>, !.tokenExpiry = <<>>,
                          !.calls[c].pc = "threw", !.calls[c].at = auth.now]
  /\ UNCHANGED <<users, messages, tasks, nextId, turns, openai>>

\* the catch: the request failed, 'Failed to authenticate with astrology API'
TokenRequestFails(c) ==
  /\ auth.calls[c].pc = "requesting"
  /\ auth' = [auth EXCEPT !.calls[c].pc = "threw", !.calls[c].at = auth.now]
  /\ UNCHANGED <<users, messages, tasks, nextId, turns, openai>>

(***************************************************************************)
(* Specifications.                                                         *)
(***************************************************************************)
Init ==
  /\ users = [a \in Users |-> <<>>]
  /\ messages = <<>>
  /\ tasks = [t \in Tasks |-> IdleTask]
  /\ nextId = 1
  /\ turns = 0
  /\ openai \in BOOLEAN
  /\ auth = NoAuth

\* one user, turns processed one at a time, repositories that work
Next ==
  \/ ReceiveMessage(1, "A")
  \/ SaveUserMessage(1)
  \/ HandleNewUser(1)
  \/ HandleNameInput(1)
  \/ HandleBirthDateInput(1)
  \/ HandleBirthTimeInput(1)
  \/ HandleBirthPlaceInput(1)
  \/ GeocodeFails(1)
  \/ GeocodeFinds(1)
  \/ PersistBirthPlace(1)
  \/ GenerateNatalChart(1)
  \/ SetChartReady(1)
  \/ InterpretNatalChart(1)
  \/ HandleChatMessage(1)
  \/ SaveAssistantMessage(1)
Spec == Init /\ [][Next]_vars

\* the same, with a user row that can disappear while a turn runs
NextFault == Next \/ DeleteUser("A")
SpecFault == Init /\ [][NextFault]_vars

\* Onboarding with failing providers: the user sends a first message and
\* then an input the state accepts, every place is found, the chart
\* provider fails on every request and the language model on every call.
\* Each step of a turn is an awaited call that returns, and the user goes on
\* answering the prompts: the steps are taken as long as one is possible.
\* the trimmed body passes the local rule of the state
AcceptedIn(state, text) ==
  IF state = "NEW" THEN TRUE
  ELSE IF state = "AWAITING_NAME" THEN NameAccepted(text)
  ELSE IF state = "AWAITING_BIRTH_DATE" THEN BirthDateResult(text).kind = "ok"
  ELSE IF state = "AWAITING_BIRTH_TIME" THEN BirthTimeResult(text).kind = "ok"
  ELSE IF state = "AWAITING_BIRTH_PLACE" THEN PlaceAccepted(text)
  ELSE FALSE
ValidBodies(state) ==
  {body \in Bodies(state) : \E text \in {Trim(body)} : AcceptedIn(state, text)}
ReceiveValid(t, a) == \E body \in ValidBodies(StateOf(a)) : ReceiveBody(t, a, body)
GenerateNatalChartFallback(t) ==
  \E provider \in {o \in ProviderOutcomes : ProviderFailed(o)} : GenerateNatalChartOn(t, provider)
InterpretNatalChartFailing(t) == InterpretNatalChartOn(t, "throws")
NextLive ==
  \/ ReceiveValid(1, "A")
  \/ SaveUserMessage(1)
  \/ HandleNewUser(1)
  \/ HandleNameInput(1)
  \/ HandleBirthDateInput(1)
  \/ HandleBirthTimeInput(1)
  \/ HandleBirthPlaceInput(1)
  \/ GeocodeFinds(1)
  \/ PersistBirthPlace(1)
  \/ GenerateNatalChartFallback(1)
  \/ SetChartReady(1)
  \/ InterpretNatalChartFailing(1)
  \/ SaveAssistantMessage(1)
SpecLive == Init /\ [][NextLive]_vars /\ WF_vars(NextLive)

\* The calls of getProkeralaToken made by concurrent chart requests, with
\* or without configured credentials
InitToken ==
  /\ users = [a \in Users |-> <<>>]
  /\ messages = <<>>
  /\ tasks = [t \in Tasks |-> IdleTask]
  /\ nextId = 1
  /\ turns = 0
  /\ openai = FALSE
  /\ auth \in {[NoAuth EXCEPT !.configured = c] : c \in BOOLEAN}
NextToken ==
  \/ Tick
  \/ \E c \in Callers : GetTokenStart(c)
  \/ \E c \in Callers : TokenResponse(c)
  \/ \E c \in Callers : TokenRequestFails(c)
SpecToken == InitToken /\ [][NextToken]_vars

\* Two messages of one user in flight at once: the webhook starts a call of
\* processIncomingMessage for every message, and nothing makes a call wait
\* for the one before it.  The user answers the welcome with two names.
MaxRaceTurns == 3
RaceBodies(state) ==
  IF state = "AWAITING_NAME" THEN {TxtAl, TxtReset} ELSE ValidBodies(state)
ReceiveConcurrently(t, a) ==
  \E body \in RaceBodies(StateOf(a)) :
    LET user == IF users[a] = <<>> THEN NewUser(nextId, a) ELSE users[a][1]
    IN  /\ tasks[t].pc \in NotRunning
        /\ turns < MaxRaceTurns
        /\ users' = [users EXCEPT ![a] = <<user>>]
        /\ nextId' = IF users[a] = <<>> THEN nextId + 1 ELSE nextId
        /\ tasks' = [tasks EXCEPT ![t] =
                       [IdleTask EXCEPT !.pc = "saveUser", !.user = <<user>>,
                                        !.messageText = Trim(body)]]
        /\ turns' = turns + 1
        /\ UNCHANGED <<messages, openai, auth>>
NextRace ==
  \/ \E t \in Tasks : ReceiveConcurrently(t, "A")
  \/ \E t \in Tasks : SaveUserMessage(t)
  \/ \E t \in Tasks : HandleNewUser(t)
  \/ \E t \in Tasks : HandleNameInput(t)
  \/ \E t \in Tasks : HandleBirthDateInput(t)
  \/ \E t \in Tasks : SaveAssistantMessage(t)
SpecRace == Init /\ [][NextRace]_vars

\* Two users, each with its own turns one at a time, the turns of the two
\* interleaved.  User A sends valid inputs and then questions; user B
\* arrives once A has a chart and starts its own onboarding while A asks.
\* The providers fail.
MaxPairTurns == 7
AddressOf(t) == IF t = 1 THEN "A" ELSE "B"
PairBodies(a, state) ==
  IF a = "B" /\ StateOf("A") \notin {"CHART_READY", "CHATTING"} THEN {}
  ELSE IF state \in {"CHART_READY", "CHATTING"} THEN {TxtLove}
  ELSE IF state = "NEW" THEN {TxtAl}
  ELSE ValidBodies(state)
ReceiveOwn(t) ==
  \E body \in PairBodies(AddressOf(t), StateOf(AddressOf(t))) :
    LET a == AddressOf(t)
        user == IF users[a] = <<>> THEN NewUser(nextId, a) ELSE users[a][1]
    IN  /\ tasks[t].pc \in NotRunning
        /\ turns < MaxPairTurns
        /\ users' = [users EXCEPT ![a] = <<user>>]
        /\ nextId' = IF users[a] = <<>> THEN nextId + 1 ELSE nextId
        /\ tasks' = [tasks EXCEPT ![t] =
                       [IdleTask EXCEPT !.pc = "saveUser", !.user = <<user>>,
                                        !.messageText = Trim(body)]]
        /\ turns' = turns + 1
        /\ UNCHANGED <<messages, openai, auth>>
\* the steps of a turn once it is received
TurnStep(t) ==
  \/ SaveUserMessage(t)
  \/ HandleNewUser(t)
  \/ HandleNameInput(t)
  \/ HandleBirthDateInput(t)
  \/ HandleBirthTimeInput(t)
  \/ HandleBirthPlaceInput(t)
  \/ GeocodeFinds(t)
  \/ PersistBirthPlace(t)
  \/ GenerateNatalChartFallback(t)
  \/ SetChartReady(t)
  \/ InterpretNatalChartFailing(t)
  \/ HandleChatMessage(t)
  \/ SaveAssistantMessage(t)
NextPair ==
  \/ \E t \in Tasks : ReceiveOwn(t)
  \/ \E t \in Tasks : TurnStep(t)
SpecPair == Init /\ [][NextPair]_vars

\* The fallback computation called for two profiles, at any time, with an
\* empty or a filled token cache: each of the two turns stands before its
\* call of generateNatalChart with a profile drawn from a few birth dates,
\* birth times and coordinates, the provider path fails, and time passes in
\* between.
ChartDates == {[y |-> 1990, m |-> 12, d |-> 25], [y |-> 2000, m |-> 2, d |-> 29]}
ChartTimes == {<<"0", "9", ":", "3", "0">>, <<"2", "3", ":", "5", "9">>}
ChartPlaces == {CandRome, CandUnnamed}
ProfileOf(id, a, date, time, cand) ==
  [NewUser(id, a) EXCEPT
     !.name = <<TxtAl>>, !.birthDate = <<date>>, !.birthTime = <<time>>,
     !.birthPlace = <<AddressOr(cand.display_name, TxtAl)>>,
     !.birthLatitude = <<cand.lat>>, !.birthLongitude = <<cand.lon>>,
     !.timezone = <<getTimezone(cand.lon, "noZone")>>,
     !.conversationState = "AWAITING_BIRTH_PLACE"]
Profiles(id, a) ==
  {ProfileOf(id, a, date, time, cand) :
     date \in ChartDates, time \in ChartTimes, cand \in ChartPlaces}
BeforeChart(profile) ==
  [IdleTask EXCEPT !.pc = "generateChart", !.user = <<profile>>,
                   !.updatedUser = <<profile>>, !.messageText = TxtAl, !.place = TxtAl,
                   !.trace = <<"saveMessage:user", "handleBirthPlaceInput",
                               "geocodeLocation", "updateBirthInfo", "findById">>]
\* the cache after a first call of getProkeralaToken was answered at once
\* with a token valid for 61 s
TokenCached ==
  [NoAuth EXCEPT
     !.prokeralaToken = <<1>>, !.tokenExpiry = <<1>>, !.started = 1,
     !.responses = <<[token |-> 1, ttl |-> 61, sentAt |-> 0, at |-> 0]>>,
     !.calls[1] = [IdleCall EXCEPT !.pc = "returned", !.got = <<1>>, !.via = "provider"]]
InitChart ==
  /\ \E pa \in Profiles(1, "A"), pb \in Profiles(2, "B") :
       /\ users = [a \in Users |-> IF a = "A" THEN <<pa>> ELSE <<pb>>]
       /\ tasks = [t \in Tasks |-> IF t = 1 THEN BeforeChart(pa) ELSE BeforeChart(pb)]
  /\ messages = <<>>
  /\ nextId = 3
  /\ turns = 2
  /\ openai = FALSE
  /\ auth \in {NoAuth, TokenCached}
NextChart ==
  \/ Tick
  \/ \E t \in Tasks : GenerateNatalChartFallback(t)
SpecChart == InitChart /\ [][NextChart]_vars

\* The fallback computation called for a profile born on any day of the
\* leap year 2000
CalendarDays ==
  {date \in [y : {2000}, m : 1..12, d : 1..31] : date.d <= DaysInMonth(date.y, date.m)}
InitZodiac ==
  /\ \E date \in CalendarDays :
       LET profile == ProfileOf(1, "A", date, <<"0", "9", ":", "3", "0">>, CandRome)
       IN  /\ users = [a \in Users |-> IF a = "A" THEN <<profile>> ELSE <<>>]
           /\ tasks = [t \in Tasks |-> IF t = 1 THEN BeforeChart(profile) ELSE IdleTask]
  /\ messages = <<>>
  /\ nextId = 2
  /\ turns = 1
  /\ openai = FALSE
  /\ auth = NoAuth
NextZodiac == GenerateNatalChartFallback(1)
SpecZodiac == InitZodiac /\ [][NextZodiac]_vars

\* Onboarding with valid inputs and failing chart and language providers,
\* the place search and the time zone lookup answering in every way
NextGeo ==
  \/ ReceiveValid(1, "A")
  \/ SaveUserMessage(1)
  \/ HandleNewUser(1)
  \/ HandleNameInput(1)
  \/ HandleBirthDateInput(1)
  \/ HandleBirthTimeInput(1)
  \/ HandleBirthPlaceInput(1)
  \/ GeocodeLocation(1)
  \/ PersistBirthPlace(1)
  \/ GenerateNatalChartFallback(1)
  \/ SetChartReady(1)
  \/ InterpretNatalChartFailing(1)
  \/ SaveAssistantMessage(1)
SpecGeo == Init /\ [][NextGeo]_vars

\* Onboarding in which the first answer to the birth date prompt is any of
\* a family of texts: days, months and years around the limits of the
\* validation (day 0 and 31, month 0 and 13, the years 50, 1899, 1900, the
\* leap years 2000 and 2024, today's year), and texts with the date inside
\* other characters or without a date.  After a rejection the user sends a
\* valid date; all other inputs are valid, the providers fail.
DateDays == {<<"0">>, <<"3">>, <<"4">>, <<"2", "9">>, <<"3", "1">>}
DateMonths == {<<"0">>, <<"2">>, <<"1", "1">>, <<"1", "2">>, <<"1", "3">>}
DateYears == {<<"0", "0", "5", "0">>, <<"1", "8", "9", "9">>, <<"1", "9", "0", "0">>,
              <<"2", "0", "0", "0">>, <<"2", "0", "2", "3">>, <<"2", "0", "2", "6">>}
DateInputs ==
  {day \o <<"/">> \o month \o <<"/">> \o year :
     day \in DateDays, month \in DateMonths, year \in DateYears}
  \cup {<<"1", "2", "5", "/", "1", "2", "/", "1", "9", "9", "0">>,
        <<"o", "n", " ", "2", "9", ".", "2", "-", "2", "0", "2", "4", "1">>,
        <<"2", "5", "/", "1", "2", "/", "9", "0">>,
        <<"3", "1", "/", "1", "2", "/", "2", "0", "2", "6">>,
        TxtSeven, TxtReset}
DateRejections == {"dateFormat", "dateInvalid", "dateFuture", "datePre1900"}
DateBodies(a) ==
  IF StateOf(a) # "AWAITING_BIRTH_DATE" THEN ValidBodies(StateOf(a))
  ELSE IF messages[Len(messages)].content.kind \in DateRejections THEN {TxtDate}
  ELSE DateInputs
ReceiveDate(t, a) == \E body \in DateBodies(a) : ReceiveBody(t, a, body)
NextDate ==
  \/ ReceiveDate(1, "A")
  \/ SaveUserMessage(1)
  \/ HandleNewUser(1)
  \/ HandleNameInput(1)
  \/ HandleBirthDateInput(1)
  \/ HandleBirthTimeInput(1)
  \/ HandleBirthPlaceInput(1)
  \/ GeocodeFinds(1)
  \/ PersistBirthPlace(1)
  \/ GenerateNatalChartFallback(1)
  \/ SetChartReady(1)
  \/ InterpretNatalChartFailing(1)
  \/ SaveAssistantMessage(1)
SpecDate == Init /\ [][NextDate]_vars

\* Onboarding in which the first answer to the birth time prompt is any of
\* a family of texts: hours and minutes around the limits (hour 24, minute
\* 60), one-digit hours, the time inside other characters, the two ways of
\* saying that the time is not known, and texts without a time.  After a
\* rejection the user sends a valid time; all other inputs are valid, the
\* providers fail.
TimeHours == {<<"0">>, <<"9">>, <<"0", "9">>, <<"2", "3">>, <<"2", "4">>, <<"9", "9">>}
TimeMinutes == {<<"0", "0">>, <<"5", "9">>, <<"6", "0">>, <<"9", "9">>}
TimeInputs ==
  {hour \o <<":">> \o minute : hour \in TimeHours, minute \in TimeMinutes}
  \cup {<<"1", "2", "3", ":", "4", "5">>,
        <<"9", ":", "3", "0", "1">>,
        <<"1", ":", "5">>,
        <<"a", "t", " ", "7", ":", "0", "5", "p", "m">>,
        <<"U", "N", "K", "N", "O", "W", "N">>,
        <<"I", " ", "D", "o", "n", "'", "t", " ", "K", "n", "o", "w">>,
        <<"u", "n", "k", "n", "o", "w", "n", " ", "2", "5", ":", "9", "9">>,
        TxtSeven, TxtReset}
TimeRejections == {"timeFormat", "timeInvalid"}
TimeBodies(a) ==
  IF StateOf(a) # "AWAITING_BIRTH_TIME" THEN ValidBodies(StateOf(a))
  ELSE IF messages[Len(messages)].content.kind \in TimeRejections THEN {TxtTime}
  ELSE TimeInputs
ReceiveTime(t, a) == \E body \in TimeBodies(a) : ReceiveBody(t, a, body)
NextTime ==
  \/ ReceiveTime(1, "A")
  \/ SaveUserMessage(1)
  \/ HandleNewUser(1)
  \/ HandleNameInput(1)
  \/ HandleBirthDateInput(1)
  \/ HandleBirthTimeInput(1)
  \/ HandleBirthPlaceInput(1)
  \/ GeocodeFinds(1)
  \/ PersistBirthPlace(1)
  \/ GenerateNatalChartFallback(1)
  \/ SetChartReady(1)
  \/ InterpretNatalChartFailing(1)
  \/ SaveAssistantMessage(1)
SpecTime == Init /\ [][NextTime]_vars

\* WhatsappController.handleIncomingMessage around the turn: the webhook
\* request is answered when processIncomingMessage has resolved (the reply
\* was sent) or rejected (findOrCreateByPhone, processMessage or sendMessage
\* raised).  Turns are processed one at a time; the user's row can be
\* removed during a turn, the database can fail on the first lookup, and
\* the channel can fail to send.
SendOutcomes == {"sent", "sendThrows"}

\* a handler whose catch answers with a server error
WebhookStatus_ErrorStatus(outcome) == IF outcome = "resolved" THEN 200 ELSE 500

\* res.status(HttpStatus.OK) in the try block and in the catch block
WebhookStatus(outcome) == IF outcome = "resolved" THEN 200 ELSE 200

HttpBodies(state) ==
  IF state \in {"CHART_READY", "CHATTING"} THEN {TxtLove, TxtReset} ELSE ValidBodies(state)
ReceiveWebhook(t, a) ==
  /\ tasks[t].pc = "idle" \/ tasks[t].status # <<>>
  /\ \E body \in HttpBodies(StateOf(a)) : ReceiveBody(t, a, body)
\* findOrCreateByPhone raises (the database is not reachable): nothing of
\* the turn runs
ReceiveDatabaseError(t, a) ==
  /\ tasks[t].pc = "idle" \/ tasks[t].status # <<>>
  /\ turns < MaxTurns
  /\ tasks' = [tasks EXCEPT ![t] =
                 [IdleTask EXCEPT !.pc = "failed",
                                  !.trace = <<"findOrCreateByPhone", "Database error">>]]
  /\ turns' = turns + 1
  /\ UNCHANGED <<users, messages, nextId, openai, auth>>
\* await this.sendMessage(phoneNumber, response) after a turn that returned,
\* and the answer to the webhook request
AnswerWebhook(t) ==
  /\ tasks[t].pc \in {"done", "failed"}
  /\ tasks[t].status = <<>>
  /\ \E sent \in SendOutcomes :
       LET outcome == IF tasks[t].pc = "failed" \/ sent = "sendThrows"
                        THEN "rejected" ELSE "resolved"
       IN  tasks' = [tasks EXCEPT
             ![t].status = <<WebhookStatus(outcome)>>,
             ![t].trace = @ \o (IF tasks[t].pc = "done" THEN <<"sendMessage", sent>> ELSE <<>>)
                            \o <<"res.status", outcome>>]
  /\ UNCHANGED <<users, messages, nextId, turns, openai, auth>>
NextHttp ==
  \/ ReceiveWebhook(1, "A")
  \/ ReceiveDatabaseError(1, "A")
  \/ SaveUserMessage(1)
  \/ HandleNewUser(1)
  \/ HandleNameInput(1)
  \/ HandleBirthDateInput(1)
  \/ HandleBirthTimeInput(1)
  \/ HandleBirthPlaceInput(1)
  \/ GeocodeFails(1)
  \/ GeocodeFinds(1)
  \/ PersistBirthPlace(1)
  \/ GenerateNatalChartFallback(1)
  \/ SetChartReady(1)
  \/ InterpretNatalChartFailing(1)
  \/ HandleChatMessage(1)
  \/ SaveAssistantMessage(1)
  \/ DeleteUser("A")
  \/ AnswerWebhook(1)
SpecHttp == Init /\ [][NextHttp]_vars

\* findOrCreateByPhone step by step, with calls of several messages in
\* flight at once: the lookup and the insert are two awaits, so two first
\* messages of one address can both find nothing and both insert.  The
\* phoneNumber column is unique: the second insert is refused by the
\* database and that call rejects.
MaxCreateTurns == 3
StartFindOrCreate(t, a) ==
  \E body \in RaceBodies(StateOf(a)) :
    /\ tasks[t].pc \in NotRunning
    /\ turns < MaxCreateTurns
    /\ tasks' = [tasks EXCEPT ![t] =
                   [IdleTask EXCEPT !.pc = "findOne", !.phoneNumber = <<a>>,
                                    !.messageText = Trim(body),
                                    !.trace = <<"findOrCreateByPhone">>]]
    /\ turns' = turns + 1
    /\ UNCHANGED <<users, messages, nextId, openai, auth>>
\* userRepository.findOne({where: {phoneNumber}}): a known address returns
\* its row, an unknown one goes on to create
FindOneByPhone(t) ==
  LET a == tasks[t].phoneNumber[1]
  IN  /\ tasks[t].pc = "findOne"
      /\ tasks' = [tasks EXCEPT ![t] =
                     IF users[a] # <<>>
                     THEN [@ EXCEPT !.pc = "saveUser", !.user = <<users[a][1]>>,
                                    !.trace = <<>>]
                     ELSE [@ EXCEPT !.pc = "saveNew",
                                    !.trace = Append(@, "create")]]
      /\ UNCHANGED <<users, messages, nextId, turns, openai, auth>>
\* the insert with no unique column to refuse a second row of the address
SaveNewUser_NoUniqueColumn(t) ==
  LET a == tasks[t].phoneNumber[1]
      user == NewUser(nextId, a)
  IN  /\ tasks[t].pc = "saveNew"
      /\ users' = [users EXCEPT ![a] = Append(@, user)]
      /\ nextId' = nextId + 1
      /\ tasks' = [tasks EXCEPT ![t] =
                     [@ EXCEPT !.pc = "saveUser", !.user = <<user>>, !.trace = <<>>]]
      /\ UNCHANGED <<messages, turns, openai, auth>>
\* userRepository.save(user) of the created entity
SaveNewUser(t) ==
  LET a == tasks[t].phoneNumber[1]
      user == NewUser(nextId, a)
  IN  /\ tasks[t].pc = "saveNew"
      /\ IF users[a] = <<>>
         THEN /\ users' = [users EXCEPT ![a] = Append(@, user)]
              /\ nextId' = nextId + 1
              /\ tasks' = [tasks EXCEPT ![t] =
                             [@ EXCEPT !.pc = "saveUser", !.user = <<user>>,
                                       !.trace = <<>>]]
         ELSE /\ tasks' = [tasks EXCEPT ![t] =
                             [@ EXCEPT !.pc = "failed",
                                       !.trace = Append(@, "duplicate key")]]
              /\ UNCHANGED <<users, nextId>>
      /\ UNCHANGED <<messages, turns, openai, auth>>
NextCreate ==
  \/ \E t \in Tasks, a \in Users : StartFindOrCreate(t, a)
  \/ \E t \in Tasks : FindOneByPhone(t)
  \/ \E t \in Tasks : SaveNewUser(t)
  \/ \E t \in Tasks : SaveUserMessage(t)
  \/ \E t \in Tasks : HandleNewUser(t)
  \/ \E t \in Tasks : HandleNameInput(t)
  \/ \E t \in Tasks : HandleBirthDateInput(t)
  \/ \E t \in Tasks : SaveAssistantMessage(t)
SpecCreate == Init /\ [][NextCreate]_vars

\* A second birth place arriving while the turn of the first is still
\* running: the user is served one turn at a time up to AWAITING_BIRTH_PLACE
\* and then sends two places in a row; the webhook starts a call for each,
\* and both calls dispatch on the state they found.  The geocoder finds
\* both places and the language model is out of reach.
MaxOverlapTurns == 6
OverlapBodies(state) ==
  IF state \in {"CHART_READY", "CHATTING"} THEN {TxtReset} ELSE ValidBodies(state)
ReceiveSerially(t, a) ==
  /\ turns < MaxOverlapTurns
  /\ \E body \in OverlapBodies(StateOf(a)) : ReceiveBody(t, a, body)
ReceiveOverlapping(t, a) ==
  \E body \in ValidBodies("AWAITING_BIRTH_PLACE") :
    /\ users[a] # <<>>
    /\ StateOf(a) = "AWAITING_BIRTH_PLACE"
    /\ tasks[t].pc \in NotRunning
    /\ \E o \in Tasks \ {t} : tasks[o].pc \notin NotRunning
    /\ turns < MaxOverlapTurns
    /\ tasks' = [tasks EXCEPT ![t] =
                   [IdleTask EXCEPT !.pc = "saveUser", !.user = <<users[a][1]>>,
                                    !.messageText = Trim(body)]]
    /\ turns' = turns + 1
    /\ UNCHANGED <<users, messages, nextId, openai, auth>>
\* the provider answers with positions, or is out of reach
GenerateNatalChartEitherWay(t) ==
  \E provider \in {o \in ProviderOutcomes :
                     IF ProviderFailed(o) THEN o.error = "networkError"
                     ELSE o.data.planet_positions # <<>>} :
    GenerateNatalChartOn(t, provider)
NextOverlap ==
  \/ ReceiveSerially(1, "A")
  \/ ReceiveOverlapping(2, "A")
  \/ \E t \in Tasks : SaveUserMessage(t)
  \/ HandleNewUser(1)
  \/ HandleNameInput(1)
  \/ HandleBirthDateInput(1)
  \/ HandleBirthTimeInput(1)
  \/ \E t \in Tasks : HandleBirthPlaceInput(t)
  \/ \E t \in Tasks : GeocodeFinds(t)
  \/ \E t \in Tasks : PersistBirthPlace(t)
  \/ \E t \in Tasks : GenerateNatalChartEitherWay(t)
  \/ \E t \in Tasks : SetChartReady(t)
  \/ \E t \in Tasks : InterpretNatalChartFailing(t)
  \/ HandleChatMessage(1)
  \/ \E t \in Tasks : SaveAssistantMessage(t)
SpecOverlap == Init /\ [][NextOverlap]_vars

\* The fallback computation called for a profile born on a day of each sun
\* sign, or on a day before, at or around the epoch, at every minute of the
\* day
FallbackDates ==
  {[y |-> 2000, m |-> month, d |-> 5] : month \in 1..12}
  \cup {[y |-> 1900, m |-> 1, d |-> 1], [y |-> 1960, m |-> 6, d |-> 15],
        [y |-> 1969, m |-> 12, d |-> 4], [y |-> 1969, m |-> 12, d |-> 31],
        [y |-> 1970, m |-> 1, d |-> 1]}
TwoDigits(n) == <<Digits[(n \div 10) + 1], Digits[(n % 10) + 1]>>
InitFallback ==
  /\ \E date \in FallbackDates, hours \in 0..23, minutes \in 0..59 :
       LET profile == ProfileOf(1, "A", date,
                                TwoDigits(hours) \o <<":">> \o TwoDigits(minutes), CandRome)
       IN  /\ users = [a \in Users |-> IF a = "A" THEN <<profile>> ELSE <<>>]
           /\ tasks = [t \in Tasks |-> IF t = 1 THEN BeforeChart(profile) ELSE IdleTask]
  /\ messages = <<>>
  /\ nextId = 2
  /\ turns = 5
  /\ openai = FALSE
  /\ auth = NoAuth
NextFallback == GenerateNatalChartOn(1, [error |-> "networkError"])
SpecFallback == InitFallback /\ [][NextFallback]_vars

\* The chat handler called, as the unit tests of the service call it, for a
\* user in a chat state with a chart or without one (natalChart null), with
\* or without a name; the questions name the words of the fallback
\* templates in upper and lower case, alone, inside longer words and
\* together.
AdviceQuestions ==
  {<<"l", "o", "v", "e", "?">>,
   <<"M", "y", " ", "R", "E", "L", "A", "T", "I", "O", "N", "S", "H", "I", "P">>,
   <<"g", "l", "o", "v", "e">>,
   <<"c", "a", "r", "e", "e", "r">>,
   <<"a", "t", " ", "W", "o", "r", "k">>,
   <<"a", " ", "j", "o", "b">>,
   <<"l", "o", "v", "e", " ", "m", "y", " ", "j", "o", "b">>,
   <<"w", "o", "r", "k", "o", "u", "t">>,
   <<"h", "e", "a", "l", "t", "h">>,
   <<"J", "o", "b", " ", "o", "r", " ", "L", "o", "v", "e">>,
   <<"x", " ", "y">>,
   <<"r", "e", "l", "a", "t", "i", "o", "n", " ", "s", "h", "i", "p">>}
HoroscopeQuestions ==
  {<<"h", "o", "r", "o", "s", "c", "o", "p", "e">>, <<"m", "y", " ", "D", "a", "i", "l", "y">>, <<"T", "o", "d", "a", "y", "?">>}
ChatProfiles ==
  LET profile == ProfileOf(1, "A", [y |-> 1990, m |-> 12, d |-> 25],
                           <<"0", "9", ":", "3", "0">>, CandRome)
  IN  {[profile EXCEPT !.conversationState = state, !.natalChart = natalChart,
                       !.name = name] :
         state \in {"CHART_READY", "CHATTING"},
         natalChart \in {<<>>, <<NatalChartFor(profile, [error |-> "networkError"])>>},
         name \in {<<TxtAl>>, <<>>}}
InitChat ==
  /\ \E profile \in ChatProfiles, question \in AdviceQuestions \cup HoroscopeQuestions :
       /\ users = [a \in Users |-> IF a = "A" THEN <<profile>> ELSE <<>>]
       /\ tasks = [t \in Tasks |->
                     IF t = 1
                       THEN [IdleTask EXCEPT !.pc = "saveUser", !.user = <<profile>>,
                                             !.messageText = Trim(question)]
                       ELSE IdleTask]
  /\ messages = <<>>
  /\ nextId = 2
  /\ turns = 6
  /\ openai \in BOOLEAN
  /\ auth = NoAuth
NextChat ==
  \/ SaveUserMessage(1)
  \/ HandleChatMessage(1)
  \/ SaveAssistantMessage(1)
SpecChat == InitChat /\ [][NextChat]_vars

\* hasCompleteBirthData called, as its unit tests call it, for user objects
\* whose five birth members are each missing (null or undefined), empty,
\* zero or set
BirthDataUsers ==
  {[NewUser(1, "A") EXCEPT
      !.name = <<TxtAl>>, !.birthDate = birthDate, !.birthTime = birthTime,
      !.birthPlace = birthPlace, !.birthLatitude = birthLatitude,
      !.birthLongitude = birthLongitude] :
     birthDate \in {<<>>, << <<>> >>, <<[y |-> 1900, m |-> 1, d |-> 1]>>},
     birthTime \in {<<>>, << <<>> >>, <<<<"0", "0", ":", "0", "0">>>>},
     birthPlace \in {<<>>, << <<>> >>, <<TxtAl>>},
     birthLatitude \in {<<>>, <<0>>, <<1>>, <<-33>>},
     birthLongitude \in {<<>>, <<0>>, <<1>>, <<-113>>}}
InitBirthData ==
  /\ \E user \in BirthDataUsers :
       /\ users = [a \in Users |-> <<>>]
       /\ tasks = [t \in Tasks |->
                     IF t = 1 THEN [IdleTask EXCEPT !.pc = "called", !.user = <<user>>]
                     ELSE IdleTask]
  /\ messages = <<>>
  /\ nextId = 2
  /\ turns = 0
  /\ openai = FALSE
  /\ auth = NoAuth
HasCompleteBirthData(t) ==
  /\ tasks[t].pc = "called"
  /\ tasks' = [tasks EXCEPT ![t].pc = "done",
                 ![t].returned = <<hasCompleteBirthData(tasks[t].user[1])>>,
                 ![t].trace = <<"hasCompleteBirthData">>]
  /\ UNCHANGED <<users, messages, nextId, turns, openai, auth>>
NextBirthData == HasCompleteBirthData(1)
SpecBirthData == InitBirthData /\ [][NextBirthData]_vars

\* A user who onboards, resets and onboards again, one turn at a time: valid
\* inputs (one of two names), the reset commands once there is a chart, and
\* any of three texts as the first message and as the message after a reset.
\* The geocoder
\* finds the places and the language model is out of reach.
MaxResetTurns == 11
ResetBodies(state) ==
  IF state \in {"CHART_READY", "CHATTING"} THEN {TxtReset, TxtStartOver}
  ELSE IF state = "NEW" THEN {TxtAl, TxtSeven, TxtReset}
  ELSE IF state = "AWAITING_NAME" THEN {TxtAl, TxtReset}
  ELSE ValidBodies(state)
ReceiveAround(t, a) ==
  \E body \in ResetBodies(StateOf(a)) :
    LET user == IF users[a] = <<>> THEN NewUser(nextId, a) ELSE users[a][1]
    IN  /\ \A o \in Tasks : tasks[o].pc \in NotRunning
        /\ turns < MaxResetTurns
        /\ users' = [users EXCEPT ![a] = <<user>>]
        /\ nextId' = IF users[a] = <<>> THEN nextId + 1 ELSE nextId
        /\ tasks' = [tasks EXCEPT ![t] =
                       [IdleTask EXCEPT !.pc = "saveUser", !.user = <<user>>,
                                        !.messageText = Trim(body)]]
        /\ turns' = turns + 1
        /\ UNCHANGED <<messages, openai, auth>>
NextReset ==
  \/ ReceiveAround(1, "A")
  \/ SaveUserMessage(1)
  \/ HandleNewUser(1)
  \/ HandleNameInput(1)
  \/ HandleBirthDateInput(1)
  \/ HandleBirthTimeInput(1)
  \/ HandleBirthPlaceInput(1)
  \/ GeocodeFinds(1)
  \/ PersistBirthPlace(1)
  \/ GenerateNatalChartEitherWay(1)
  \/ SetChartReady(1)
  \/ InterpretNatalChartFailing(1)
  \/ HandleChatMessage(1)
  \/ SaveAssistantMessage(1)
SpecReset == Init /\ [][NextReset]_vars


(***************************************************************************)
(* Properties.                                                             *)
(***************************************************************************)
\* the row of the user a turn is about, as it is now
RowNow(t) == UserById(users, tasks[t].user[1].id)
\* the turn has produced its reply
Replied(t) == tasks[t].pc \in {"saveAssistant", "done"}
InTrace(t, event) == \E i \in 1..Len(tasks[t].trace) : tasks[t].trace[i] = event

NextState(state) ==
  CASE state = "NEW" -> "AWAITING_NAME"
    [] state = "AWAITING_NAME" -> "AWAITING_BIRTH_DATE"
    [] state = "AWAITING_BIRTH_DATE" -> "AWAITING_BIRTH_TIME"
    [] state = "AWAITING_BIRTH_TIME" -> "AWAITING_BIRTH_PLACE"
    [] state = "AWAITING_BIRTH_PLACE" -> "CHART_READY"
    [] OTHER -> state

\* the input of the turn is valid for the state the turn started in (for a
\* place: accepted locally and found by the geocoder)
ValidInput(t) ==
  LET state == tasks[t].user[1].conversationState
      text == tasks[t].messageText
  IN  CASE state = "NEW" -> TRUE
        [] state = "AWAITING_NAME" -> NameAccepted(text)
        [] state = "AWAITING_BIRTH_DATE" -> BirthDateResult(text).kind = "ok"
        [] state = "AWAITING_BIRTH_TIME" -> BirthTimeResult(text).kind = "ok"
        [] state = "AWAITING_BIRTH_PLACE" -> PlaceAccepted(text) /\ tasks[t].location # <<>>
        [] OTHER -> FALSE

\* the input of the turn is rejected by the local parser of the state
RejectedLocally(t) ==
  LET state == tasks[t].user[1].conversationState
      text == tasks[t].messageText
  IN  CASE state = "AWAITING_NAME" -> ~NameAccepted(text)
        [] state = "AWAITING_BIRTH_DATE" -> BirthDateResult(text).kind # "ok"
        [] state = "AWAITING_BIRTH_TIME" -> BirthTimeResult(text).kind # "ok"
        [] state = "AWAITING_BIRTH_PLACE" -> ~PlaceAccepted(text)
        [] OTHER -> FALSE

Onboarding == {"NEW", "AWAITING_NAME", "AWAITING_BIRTH_DATE", "AWAITING_BIRTH_TIME",
               "AWAITING_BIRTH_PLACE"}

C2_UserEntryFirst ==
  \A t \in Tasks :
    /\ tasks[t].pc = "saveUser"
         => tasks[t].trace = <<>> /\ RowNow(t) = tasks[t].user[1]
    /\ tasks[t].trace # <<>>
         => /\ tasks[t].trace[1] = "saveMessage:user"
            /\ \E i \in 1..Len(messages) :
                 messages[i] = [userId |-> tasks[t].user[1].id, role |-> "user",
                                content |-> [kind |-> "text", text |-> tasks[t].messageText]]
            /\ \A i \in 2..Len(tasks[t].trace) : tasks[t].trace[i] # "saveMessage:user"

\* a turn that has geocoded a place and written the profile
C2_Witness ==
  /\ tasks[1].pc = "generateChart"
  /\ InTrace(1, "geocodeLocation") /\ InTrace(1, "updateBirthInfo")

\* C3: the message log is a sequence of pairs, a user entry followed by an
\* assistant entry, one pair per finished turn; when a turn returns, the
\* last pair is its inbound text and the text it returns.
C3_LogPairs ==
  /\ \A i \in 1..Len(messages) :
       messages[i].role = IF i % 2 = 1 THEN "user" ELSE "assistant"
  /\ \A t \in Tasks :
       /\ tasks[t].pc = "done" =>
            /\ Len(messages) = 2 * turns
            /\ tasks[t].returned # <<>>
            /\ messages[Len(messages) - 1] =
                 [userId |-> tasks[t].user[1].id, role |-> "user",
                  content |-> [kind |-> "text", text |-> tasks[t].messageText]]
            /\ messages[Len(messages)] =
                 [userId |-> tasks[t].user[1].id, role |-> "assistant",
                  content |-> tasks[t].returned[1]]
       /\ tasks[t].pc \notin NotRunning =>
            Len(messages) = 2 * (turns - 1) + (IF tasks[t].pc = "saveUser" THEN 0 ELSE 1)

\* six turns have each left their pair, the last through the advice branch
C3_Witness ==
  /\ tasks[1].pc = "done"
  /\ Len(messages) = 12
  /\ InTrace(1, "getPersonalizedAdvice")

ResolverCalls == {"geocodeLocation", "generateNatalChart", "chartRepository.save",
                  "interpretNatalChart", "getDailyHoroscope", "getPersonalizedAdvice"}
RetryReplies == {"nameRetry", "dateFormat", "dateInvalid", "dateFuture", "datePre1900",
                 "timeFormat", "timeInvalid", "placeRetry"}

\* C4: in the four AWAITING_* states an input the local parser rejects gets
\* a retry prompt, leaves the whole user row (state, name, birth date, time,
\* place, coordinates, time zone, chart) as it was, and makes no call to
\* geocoding, chart generation or the advice generator.
C4_RejectionNoChange ==
  \A t \in Tasks :
    (Replied(t) /\ RejectedLocally(t)) =>
       /\ tasks[t].response[1].kind \in RetryReplies
       /\ RowNow(t) = tasks[t].user[1]
       /\ \A i \in 1..Len(tasks[t].trace) : tasks[t].trace[i] \notin ResolverCalls

\* a rejected birth date, with a name already stored
C4_Witness ==
  /\ tasks[1].pc = "done"
  /\ tasks[1].user[1].conversationState = "AWAITING_BIRTH_DATE"
  /\ tasks[1].user[1].name # <<>>
  /\ RejectedLocally(1)

\* C5: in AWAITING_BIRTH_PLACE, when geocoding fails the reply is the
\* "couldn't find that location" message, the user row is as it was (state
\* AWAITING_BIRTH_PLACE, no place, coordinates or time zone written, no
\* chart), and no chart has been generated or saved.
C5_GeocodeFailure ==
  \A t \in Tasks :
    ( /\ Replied(t)
      /\ tasks[t].user[1].conversationState = "AWAITING_BIRTH_PLACE"
      /\ InTrace(t, "geocodeLocation") /\ tasks[t].location = <<>> ) =>
       /\ tasks[t].response[1] = GeocodeFailedReply
       /\ RowNow(t) = tasks[t].user[1]
       /\ RowNow(t).conversationState = "AWAITING_BIRTH_PLACE"
       /\ ~InTrace(t, "generateNatalChart") /\ ~InTrace(t, "chartRepository.save")
       /\ tasks[t].chart = <<>>

\* a failed geocoding of a first place, answered
C5_Witness ==
  /\ tasks[1].pc = "done"
  /\ tasks[1].user[1].conversationState = "AWAITING_BIRTH_PLACE"
  /\ InTrace(1, "geocodeLocation") /\ tasks[1].location = <<>>
  /\ tasks[1].user[1].birthPlace = <<>>


\* C6 (as stated): a failed lookup of the user row during a turn always
\* leaves processMessage as an error, in every conversation state: a turn in
\* which 'User not found' was raised has failed, it has no reply.
C6_LookupFailureFatal ==
  \A t \in Tasks :
    InTrace(t, "User not found") => tasks[t].pc = "failed" /\ tasks[t].response = <<>>

OnboardedOnFallbacks ==
  /\ tasks[1].pc = "done"
  /\ users["A"] # <<>>
  /\ users["A"][1].conversationState = "CHART_READY"
  /\ users["A"][1].natalChart # <<>>
  /\ users["A"][1].natalChart[1].method = "basic_calculation"
  /\ tasks[1].returned # <<>>
  /\ tasks[1].returned[1].kind = "chartReady"
  /\ tasks[1].returned[1].sunSign = users["A"][1].natalChart[1].sunSign
  /\ tasks[1].returned[1].moonSign = users["A"][1].natalChart[1].moonSign
  /\ tasks[1].returned[1].ascendant = users["A"][1].natalChart[1].ascendant
  /\ tasks[1].returned[1].interpretation.kind = "fallbackInterpretation"

ChatStates == {"CHART_READY", "CHATTING"}
RouteEvents == {"getMenuText", "reset", "getChartSummary", "getDailyHoroscope",
                "getPersonalizedAdvice"}
\* the rule of the routing table that is the first to match the trimmed,
\* lower-cased message
FirstRule(text) ==
  LET m == Trim(ToLower(text))
  IN  CASE m = KwMenu \/ m = KwHelp -> "getMenuText"
        [] m # KwMenu /\ m # KwHelp /\ (m = KwReset \/ m = KwStartOver) -> "reset"
        [] OTHER ->
             IF Includes(m, KwMyChart) \/ Includes(m, KwSummary) THEN "getChartSummary"
             ELSE IF Includes(m, KwToday) \/ Includes(m, KwDaily) \/ Includes(m, KwHoroscope)
               THEN "getDailyHoroscope"
             ELSE "getPersonalizedAdvice"

\* C9: in CHART_READY and CHATTING a message is handled by the first rule
\* its trimmed, lower-cased text matches, in the order menu/help (equal),
\* reset/start over (equal), my chart/summary (contained), today/daily/
\* horoscope (contained), else advice, and by no other rule: the menu text
\* is the reply, or the state is NEW with the reset reply, or the reply is
\* the chart summary (the no-chart message without a chart), or the daily
\* horoscope, or the advice generator is called with the 10 newest entries
\* of the user's message log.
C9_Routing ==
  \A t \in Tasks :
    (tasks[t].pc = "saveAssistant" /\ tasks[t].user[1].conversationState \in ChatStates) =>
      LET user == tasks[t].user[1]
          rule == FirstRule(tasks[t].messageText)
          resp == tasks[t].response[1]
          n == Len(messages)
      IN  /\ \A e \in RouteEvents : InTrace(t, e) <=> e = rule
          /\ rule = "getMenuText" => resp = MenuReply /\ RowNow(t) = user
          /\ rule = "reset" => resp = ResetReply /\ RowNow(t).conversationState = "NEW"
          /\ rule = "getChartSummary" =>
               /\ resp = getChartSummary(user) /\ RowNow(t) = user
               /\ resp.kind = IF user.natalChart = <<>> THEN "noChartFound" ELSE "chartSummary"
          /\ rule = "getDailyHoroscope" =>
               /\ resp.kind \in {"noChartYet", "llmHoroscope", "fallbackHoroscope"}
               /\ RowNow(t) = user
          /\ rule = "getPersonalizedAdvice" =>
               /\ resp.kind \in {"llmAdvice", "troubleThinking", "loveTemplate",
                                 "careerTemplate", "generalTemplate"}
               /\ RowNow(t).conversationState = "CHATTING"
               /\ Len(tasks[t].history) = (IF n < 10 THEN n ELSE 10)
               /\ \A i \in 1..Len(tasks[t].history) : tasks[t].history[i] = messages[n + 1 - i]

\* "summary today" matches the summary rule and the horoscope rule and is
\* answered with the chart summary
C9_Witness ==
  /\ tasks[1].pc = "done"
  /\ tasks[1].user[1].conversationState \in ChatStates
  /\ tasks[1].messageText = TxtSummaryToday
  /\ tasks[1].returned[1].kind = "chartSummary"
  /\ ~InTrace(1, "getDailyHoroscope")

IsResetCommand(text) == Trim(ToLower(text)) \in {KwReset, KwStartOver}

\* C10 (as stated): from any conversation state a turn whose message is
\* "reset" or "start over" leaves the user in NEW.
C10_ResetFromAnyState ==
  \A t \in Tasks :
    (tasks[t].pc = "done" /\ IsResetCommand(tasks[t].messageText))
      => RowNow(t).conversationState = "NEW"

\* C10 (amended): a turn whose message is "reset" or "start over" leaves
\* the user in NEW, with the starting-over reply, exactly when the turn
\* started in CHART_READY or CHATTING; in NEW and in the four AWAITING_*
\* states the text is the ordinary input of the state, and the user is not
\* in NEW after the turn.
C10_ResetFromChat ==
  \A t \in Tasks :
    (tasks[t].pc = "done" /\ IsResetCommand(tasks[t].messageText)) =>
       IF tasks[t].user[1].conversationState \in ChatStates
         THEN RowNow(t).conversationState = "NEW" /\ tasks[t].returned[1] = ResetReply
         ELSE /\ RowNow(t).conversationState # "NEW"
              /\ tasks[t].returned[1] # ResetReply
              /\ RowNow(t).conversationState
                   \in {tasks[t].user[1].conversationState,
                        NextState(tasks[t].user[1].conversationState)}

\* "Start Over" sent in CHATTING
C10_Witness ==
  /\ tasks[1].pc = "done"
  /\ tasks[1].user[1].conversationState = "CHATTING"
  /\ tasks[1].messageText = Trim(TxtStartOver)
  /\ users["A"][1].conversationState = "NEW"


\* the spellings of the reset command among the bodies, as processMessage
\* receives them
ResetSpellings == {<<"r", "e", "s", "e", "t">>,
                   <<"S", "t", "a", "r", "t", " ", "O", "v", "e", "r">>}

\* C11: in CHART_READY and CHATTING a message "reset" or "start over", in
\* whatever letter case and with whatever whitespace around it, sets the
\* conversation state to NEW, and the reply is the starting-over text that
\* asks for the name again.
C11_ResetInChat ==
  /\ \A body \in {TxtReset, TxtStartOver} : Trim(body) \in ResetSpellings
  /\ \A t \in Tasks :
       ( /\ Replied(t)
         /\ tasks[t].user[1].conversationState \in ChatStates
         /\ tasks[t].messageText \in ResetSpellings ) =>
           /\ RowNow(t).conversationState = "NEW"
           /\ tasks[t].response[1].kind = "startingOver"
           /\ tasks[t].response[1].asks = "name"
           /\ InTrace(t, "updateState")

\* " Start Over " sent in CHART_READY
C11_Witness ==
  /\ tasks[1].pc = "done"
  /\ tasks[1].user[1].conversationState = "CHART_READY"
  /\ tasks[1].messageText = <<"S", "t", "a", "r", "t", " ", "O", "v", "e", "r">>
  /\ users["A"][1].conversationState = "NEW"
  /\ tasks[1].returned[1].asks = "name"

\* position of the first occurrence of an event in the calls of a turn
\* (0: none)
TracePos(t, event) ==
  IF InTrace(t, event)
    THEN CHOOSE i \in 1..Len(tasks[t].trace) :
           tasks[t].trace[i] = event /\ \A j \in 1..(i - 1) : tasks[t].trace[j] # event
    ELSE 0

\* C12: in CHART_READY a message matching no command moves the state to
\* CHATTING, and does so before the advice generator is called; a menu,
\* chart summary or horoscope message leaves the state at CHART_READY and
\* writes no state.
C12_AutoAdvance ==
  \A t \in Tasks :
    (Replied(t) /\ tasks[t].user[1].conversationState = "CHART_READY") =>
      LET rule == FirstRule(tasks[t].messageText)
      IN  /\ rule = "getPersonalizedAdvice" =>
               /\ RowNow(t).conversationState = "CHATTING"
               /\ TracePos(t, "updateState") > 0
               /\ TracePos(t, "updateState") < TracePos(t, "getPersonalizedAdvice")
          /\ rule \in {"getMenuText", "getChartSummary", "getDailyHoroscope"} =>
               /\ RowNow(t).conversationState = "CHART_READY"
               /\ ~InTrace(t, "updateState")
               /\ ~InTrace(t, "getPersonalizedAdvice")

\* the first question after the chart
C12_Witness ==
  /\ tasks[1].pc = "done"
  /\ tasks[1].user[1].conversationState = "CHART_READY"
  /\ tasks[1].messageText = TxtLove
  /\ users["A"][1].conversationState = "CHATTING"

\* C13: CHATTING is left only by a turn whose message is a reset command
\* (and then for NEW), every other turn started in CHATTING ends in
\* CHATTING, and CHATTING is entered only from CHART_READY.
C13_ChattingAbsorbing ==
  [][ /\ (users["A"] # <<>> /\ users'["A"] # <<>>) =>
           LET before == users["A"][1].conversationState
               after == users'["A"][1].conversationState
           IN  /\ (before = "CHATTING" /\ after # "CHATTING") =>
                    /\ after = "NEW"
                    /\ \E t \in Tasks : /\ tasks[t].pc = "handle"
                                        /\ IsResetCommand(tasks[t].messageText)
               /\ (before # "CHATTING" /\ after = "CHATTING") => before = "CHART_READY"
      /\ \A t \in Tasks :
           ( /\ tasks'[t].pc = "done" /\ tasks[t].pc # "done"
             /\ tasks[t].user[1].conversationState = "CHATTING"
             /\ ~IsResetCommand(tasks[t].messageText) )
           => UserById(users', tasks[t].user[1].id).conversationState = "CHATTING"
    ]_vars

\* "reset my chart" sent in CHATTING: a chart summary, the user still in
\* CHATTING
C13_Witness ==
  /\ tasks[1].pc = "done"
  /\ tasks[1].user[1].conversationState = "CHATTING"
  /\ tasks[1].messageText = TxtResetMyChart
  /\ users["A"][1].conversationState = "CHATTING"


\* C14 (as stated): hasCompleteBirthData is true of a user exactly when
\* birth date, time, place, latitude and longitude are all present (not
\* null), a coordinate of 0 being a present one.
C14_CompleteWhenPresent ==
  \A a \in Users :
    users[a] # <<>> =>
      ( hasCompleteBirthData(users[a][1]) <=>
          /\ users[a][1].birthDate # <<>>
          /\ users[a][1].birthTime # <<>>
          /\ users[a][1].birthPlace # <<>>
          /\ users[a][1].birthLatitude # <<>>
          /\ users[a][1].birthLongitude # <<>> )


\* the cache a call found was usable at the time of the call
SawValidCache(call) ==
  /\ call.seen.prokeralaToken # <<>>
  /\ call.seen.tokenExpiry # <<>>
  /\ call.sentAt < call.seen.tokenExpiry[1]

\* C15 (as stated): a call of getProkeralaToken returns the cached token,
\* without a request, exactly when it finds a token cached and now < expiry;
\* a token is never returned from the cache at a time now >= its stored
\* expiry; and a refresh stores the new token with the expiry
\* request time + (expires_in - 60 s).
C15_TokenCache ==
  /\ \A c \in Callers :
       LET call == auth.calls[c]
       IN  call.pc # "idle" =>
             /\ (call.pc = "returned" /\ call.via = "cache") <=> SawValidCache(call)
             /\ call.via = "cache" =>
                  /\ call.got = call.seen.prokeralaToken
                  /\ call.at < call.seen.tokenExpiry[1]
  /\ auth.responses # <<>> =>
       LET last == auth.responses[Len(auth.responses)]
       IN  /\ auth.prokeralaToken = <<last.token>>
           /\ auth.tokenExpiry = <<last.sentAt + (last.ttl - 60)>>

\* C16: whatever the interleaving of the calls of getProkeralaToken, a call
\* that returns after its own request returns the token of its own
\* response, a call that returns from the cache returns a token the
\* provider issued, and the cache holds either nothing or the token and
\* the expiry of one and the same response, the one handled last.
C16_RefreshHarmless ==
  /\ \A c \in Callers :
       LET call == auth.calls[c]
       IN  call.pc = "returned" =>
             /\ call.got # <<>>
             /\ \E i \in 1..Len(auth.responses) : auth.responses[i].token = call.got[1]
             /\ call.via = "provider" =>
                  \E i \in 1..Len(auth.responses) :
                    /\ auth.responses[i].token = call.got[1]
                    /\ auth.responses[i].sentAt = call.sentAt
                    /\ auth.responses[i].at = call.at
  /\ IF auth.responses = <<>>
       THEN auth.prokeralaToken = <<>> /\ auth.tokenExpiry = <<>>
       ELSE LET last == auth.responses[Len(auth.responses)]
            IN  /\ auth.prokeralaToken = <<last.token>>
                /\ auth.tokenExpiry = <<last.at + (last.ttl - 60)>>

\* two calls that both found the cache empty, both requested a token and
\* both returned, each with its own token, the second response arriving
\* with a shorter life than the first
C16_Witness ==
  /\ auth.calls[1].pc = "returned" /\ auth.calls[1].via = "provider"
  /\ auth.calls[2].pc = "returned" /\ auth.calls[2].via = "provider"
  /\ auth.calls[1].seen.prokeralaToken = <<>>
  /\ auth.calls[2].seen.prokeralaToken = <<>>
  /\ auth.calls[1].got # auth.calls[2].got
  /\ Len(auth.responses) = 2
  /\ auth.responses[1].at + auth.responses[1].ttl > auth.responses[2].at + auth.responses[2].ttl


\* the handler a turn has run, by its entry in the calls of the turn
HandlerOf(state) ==
  CASE state = "NEW" -> "handleNewUser"
    [] state = "AWAITING_NAME" -> "handleNameInput"
    [] state = "AWAITING_BIRTH_DATE" -> "handleBirthDateInput"
    [] state = "AWAITING_BIRTH_TIME" -> "handleBirthTimeInput"
    [] state = "AWAITING_BIRTH_PLACE" -> "handleBirthPlaceInput"
    [] OTHER -> "handleChatMessage"
Handlers == {"handleNewUser", "handleNameInput", "handleBirthDateInput",
             "handleBirthTimeInput", "handleBirthPlaceInput", "handleChatMessage"}

\* C17: with two messages of one user processed concurrently, a turn
\* dispatches on the conversation state of the user object it was given
\* when it was received, and never reads the state again: the object stays
\* as it was for the whole turn, whatever the other turn writes to the row
\* meanwhile, and the handler run is the one of that state.
C17_SnapshotDispatch ==
  [][ \A t \in Tasks :
        /\ (tasks[t].pc \notin NotRunning /\ tasks'[t].pc # "saveUser")
             => tasks'[t].user = tasks[t].user
        /\ \A h \in Handlers :
             (\E i \in 1..Len(tasks'[t].trace) : tasks'[t].trace[i] = h)
               => h = HandlerOf(tasks'[t].user[1].conversationState)
    ]_vars

\* two messages both handled as the name in AWAITING_NAME, both answered
\* as saved, the name of the first overwritten by the second
C17_Witness ==
  /\ tasks[1].pc = "done" /\ tasks[2].pc = "done"
  /\ tasks[1].user[1].conversationState = "AWAITING_NAME"
  /\ tasks[2].user[1].conversationState = "AWAITING_NAME"
  /\ tasks[1].returned[1] = [kind |-> "nameSaved", name |-> TxtAl]
  /\ tasks[2].returned[1] = [kind |-> "nameSaved", name |-> TxtReset]
  /\ users["A"][1].name = <<TxtReset>>
  /\ users["A"][1].conversationState = "AWAITING_BIRTH_DATE"

\* the log with the entries of one user id left out
LogOfOthers(log, id) == SelectSeq(log, LAMBDA e : e.userId # id)

AsProviderMessages(entries) ==
  [i \in 1..Len(entries) |->
     [role |-> IF entries[i].role = "user" THEN "user" ELSE "assistant",
      content |-> entries[i].content]]

\* C19: the message list of an advice request is the system prompt, the 8
\* most recent entries of the user's log oldest first, and the question as
\* the last user message (stated right after the list is built, when the
\* log is the one that was read).
C19_AdviceMessageList ==
  \A t \in Tasks :
    (tasks[t].pc = "saveAssistant" /\ tasks[t].llmMessages # <<>>) =>
      LET own == SelectSeq(messages, LAMBDA e : e.userId = tasks[t].user[1].id)
      IN  tasks[t].llmMessages =
            << [role |-> "system", content |-> [kind |-> "advisorSystemPrompt"]] >>
            \o AsProviderMessages(SliceLast(own, 8))
            \o << [role |-> "user",
                   content |-> [kind |-> "text", text |-> tasks[t].messageText]] >>

\* the provider call fails: there is no client, or the call raises
LlmFailures == {<<configured, llm>> \in BOOLEAN \X LlmOutcomes : ~configured \/ llm = "throws"}

\* C20: a language-model provider error, the missing client included, stays
\* inside interpretNatalChart, getPersonalizedAdvice and getDailyHoroscope.
\* For the chart, the user and the question a turn calls them with, each
\* returns its local fallback text in every failing case; and a turn that
\* has called one of them is never ended by an error and carries a reply of
\* that operation, the fallback itself when there is no client.
C20_ProviderErrorsCaught ==
  \A t \in Tasks :
    /\ InTrace(t, "interpretNatalChart") =>
         LET chart == tasks[t].chart[1]
         IN  /\ \A e \in LlmFailures :
                  interpretNatalChart(chart, e[1], e[2]) = getFallbackInterpretation(chart)
             /\ tasks[t].pc # "failed"
             /\ tasks[t].response[1].kind = "chartReady"
             /\ tasks[t].response[1].interpretation.kind
                  \in {"llmInterpretation", "fallbackInterpretation"}
             /\ ~openai => tasks[t].response[1].interpretation = getFallbackInterpretation(chart)
    /\ InTrace(t, "getPersonalizedAdvice") =>
         LET user == tasks[t].user[1]
             question == tasks[t].messageText
         IN  /\ \A e \in LlmFailures :
                  getPersonalizedAdvice(user, question, e[1], e[2])
                    = getFallbackAdvice(user, question)
             /\ tasks[t].pc # "failed"
             /\ tasks[t].response[1].kind
                  \in {"llmAdvice", "troubleThinking", getFallbackAdvice(user, question).kind}
             /\ ~openai => tasks[t].response[1] = getFallbackAdvice(user, question)
    /\ (InTrace(t, "getDailyHoroscope") /\ tasks[t].user[1].natalChart # <<>>) =>
         LET user == tasks[t].user[1]
         IN  /\ \A e \in LlmFailures :
                  getDailyHoroscope(user, e[1], e[2]) = getFallbackDailyHoroscope(user)
             /\ tasks[t].pc # "failed"
             /\ tasks[t].response[1].kind \in {"llmHoroscope", "fallbackHoroscope"}
             /\ ~openai => tasks[t].response[1] = getFallbackDailyHoroscope(user)

\* with a client configured, a question about love was answered from the
\* local template: the provider call had raised
C20_Witness ==
  /\ openai
  /\ tasks[1].pc = "done"
  /\ InTrace(1, "getPersonalizedAdvice")
  /\ tasks[1].returned[1].kind = "loveTemplate"

\* the inputs of calculateBasicChart in a profile
ChartInputs(profile) ==
  <<profile.birthDate, profile.birthTime, profile.birthLatitude, profile.birthLongitude>>

RangesHolding(date) == {i \in 1..13 : ZodiacRangeHas(zodiacDates[i], date.m, date.d)}

\* C22: for every calendar day, Feb 29 included, exactly one range of the
\* table holds the day (no gap, no overlap) and getZodiacSign, here as the
\* sunSign of the fallback chart, is the sign of that range; Dec 22-31 and
\* Jan 1-19 both give Capricorn.
C22_ZodiacTable ==
  (tasks[1].chart # <<>>) =>
    LET date == tasks[1].updatedUser[1].birthDate[1]
        sunSign == tasks[1].chart[1].sunSign
    IN  /\ Cardinality(RangesHolding(date)) = 1
        /\ \A i \in RangesHolding(date) : sunSign = zodiacDates[i].sign
        /\ sunSign = getZodiacSign(date)
        /\ ((date.m = 12 /\ date.d >= 22) \/ (date.m = 1 /\ date.d <= 19))
             <=> sunSign = "Capricorn"

\* the chart of a profile born on Feb 29 has its sun in Pisces
C22_Witness ==
  /\ tasks[1].chart # <<>>
  /\ tasks[1].updatedUser[1].birthDate[1] = [y |-> 2000, m |-> 2, d |-> 29]
  /\ tasks[1].chart[1].sunSign = "Pisces"

\* Math.round(longitude / 15): the whole number k with k - 1/2 <= longitude/15 < k + 1/2
RoundedHours(longitude) ==
  CHOOSE k \in -13..13 : 30 * k - 15 <= 2 * longitude /\ 2 * longitude < 30 * k + 15

\* C23: geocodeLocation fails exactly when the place search answers with no
\* candidates or raises: then no location is returned and the turn answers
\* that the location was not found; with a candidate found a location is
\* returned whatever the time zone lookup does, and when that lookup raises
\* the time zone is the offset of round(longitude / 15) hours.
C23_GeocodeFailsExactly ==
  \A t \in Tasks :
    InTrace(t, "geocodeLocation") =>
      LET searchFailed == \E e \in GeoErrors : InTrace(t, e)
          location == tasks[t].location
      IN  /\ searchFailed <=> location = <<>>
          /\ searchFailed <=> ~InTrace(t, "found")
          /\ searchFailed => tasks[t].response = <<GeocodeFailedReply>>
          /\ InTrace(t, "lookupThrows") =>
               /\ location # <<>>
               /\ LET k == RoundedHours(location[1].longitude)
                  IN  location[1].timezone =
                        <<"Etc/GMT", IF k >= 0 THEN "-" ELSE "+", IF k >= 0 THEN k ELSE -k>>

\* the time zone lookup raised for a place at 113 degrees west: the place
\* is stored with the estimated zone Etc/GMT+8 and the chart is ready
C23_Witness ==
  /\ tasks[1].pc = "done"
  /\ InTrace(1, "lookupThrows")
  /\ tasks[1].returned[1].kind = "chartReady"
  /\ users["A"][1].birthLongitude = <<-113>>
  /\ users["A"][1].timezone = <<<<"Etc/GMT", "+", 8>>>>

\* the first D/M/YYYY of the text is a day of the calendar, of a year from
\* 1900 on, not after today
RealPastDate(text) ==
  /\ DateMatch(text) # <<>>
  /\ LET d == ParseInt(DateMatch(text)[1])
         m == ParseInt(DateMatch(text)[2])
         y == ParseInt(DateMatch(text)[3])
     IN  /\ y >= 1900
         /\ m \in 1..12
         /\ d >= 1 /\ d <= DaysInMonth(y, m)
         /\ ~DateAfter([y |-> y, m |-> m, d |-> d], Today)
TheDateIn(text) ==
  [y |-> ParseInt(DateMatch(text)[3]), m |-> ParseInt(DateMatch(text)[2]),
   d |-> ParseInt(DateMatch(text)[1])]

\* C24: a turn in AWAITING_BIRTH_DATE accepts its text exactly when the
\* first D/M/YYYY in it is a real calendar day (Feb 29 only in leap years,
\* no Feb 31, no month 13), of a year from 1900 on and not in the future;
\* then that day is written as birthDate.  A rejected text, and every turn
\* of another state, leaves birthDate as it was.
C24_BirthDateParsing ==
  \A t \in Tasks :
    Replied(t) =>
      LET user == tasks[t].user[1]
          text == tasks[t].messageText
          accepted == tasks[t].response[1].kind = "dateSaved"
      IN  IF user.conversationState = "AWAITING_BIRTH_DATE"
            THEN /\ accepted <=> RealPastDate(text)
                 /\ ~accepted => /\ tasks[t].response[1].kind \in DateRejections
                                 /\ RowNow(t).birthDate = user.birthDate
                                 /\ RowNow(t).conversationState = "AWAITING_BIRTH_DATE"
                 /\ accepted => RowNow(t).birthDate = <<TheDateIn(text)>>
            ELSE /\ ~accepted
                 /\ RowNow(t).birthDate = user.birthDate

\* 29/2/2000 was accepted and stored
C24_Witness ==
  /\ tasks[1].pc = "done"
  /\ tasks[1].messageText = <<"2", "9", "/", "2", "/", "2", "0", "0", "0">>
  /\ tasks[1].returned[1].kind = "dateSaved"
  /\ users["A"][1].birthDate = <<[y |-> 2000, m |-> 2, d |-> 29]>>

\* 29/2/2023 was rejected as not a valid date and nothing was stored
C24_WitnessRejected ==
  /\ tasks[1].pc = "done"
  /\ tasks[1].messageText = <<"2", "9", "/", "2", "/", "2", "0", "2", "3">>
  /\ tasks[1].returned[1].kind = "dateInvalid"
  /\ users["A"][1].birthDate = <<>>

\* a 5-character HH:MM with 00 <= HH <= 23 and 00 <= MM <= 59
WellFormedTime(time) ==
  /\ Len(time) = 5
  /\ time[3] = ":"
  /\ \A i \in {1, 2, 4, 5} : IsDigit(time[i])
  /\ 10 * DigitVal(time[1]) + DigitVal(time[2]) <= 23
  /\ 10 * DigitVal(time[4]) + DigitVal(time[5]) <= 59
SaysUnknown(text) ==
  Includes(ToLower(text), KwUnknown) \/ Includes(ToLower(text), KwDontKnow)

\* C25: every stored birthTime is a well-formed HH:MM.  A turn in
\* AWAITING_BIRTH_TIME whose text says "unknown" or "don't know" in any
\* case stores 12:00; any other text is accepted exactly when its first
\* H:MM has an hour of 0..23 and a minute of 0..59, and then that time is
\* stored with the hour padded to two digits; a rejected text leaves
\* birthTime as it was.
C25_BirthTimeParsing ==
  /\ \A a \in Users :
       (users[a] # <<>> /\ users[a][1].birthTime # <<>>)
         => WellFormedTime(users[a][1].birthTime[1])
  /\ \A t \in Tasks :
       (Replied(t) /\ tasks[t].user[1].conversationState = "AWAITING_BIRTH_TIME") =>
         LET text == tasks[t].messageText
             tm == TimeMatch(text)
             accepted == tasks[t].response[1].kind = "timeSaved"
         IN  /\ SaysUnknown(text) =>
                  accepted /\ RowNow(t).birthTime = << <<"1", "2", ":", "0", "0">> >>
             /\ ~SaysUnknown(text) =>
                  /\ accepted <=> (tm # <<>> /\ ParseInt(tm[1]) <= 23 /\ ParseInt(tm[2]) <= 59)
                  /\ accepted =>
                       /\ ParseInt(SubSeq(RowNow(t).birthTime[1], 1, 2)) = ParseInt(tm[1])
                       /\ SubSeq(RowNow(t).birthTime[1], 4, 5) = tm[2]
             /\ ~accepted => /\ tasks[t].response[1].kind \in TimeRejections
                             /\ RowNow(t).birthTime = tasks[t].user[1].birthTime

\* "9:59" was stored as "09:59"
C25_Witness ==
  /\ tasks[1].pc = "done"
  /\ tasks[1].messageText = <<"9", ":", "5", "9">>
  /\ tasks[1].returned[1].kind = "timeSaved"
  /\ users["A"][1].birthTime = << <<"0", "9", ":", "5", "9">> >>

\* C26: the webhook request of a turn is answered with status 200 and
\* nothing else, whether the turn returned its reply and sent it, or ended
\* in an error (a failed lookup of the user, a database error before the
\* turn, a failure to send the reply); it is answered only when the turn has
\* ended.
C26_Always200 ==
  \A t \in Tasks :
    tasks[t].status # <<>> =>
      /\ tasks[t].status = <<200>>
      /\ tasks[t].pc \in {"done", "failed"}

\* a turn that ended with 'User not found' was answered with 200
C26_Witness ==
  /\ tasks[1].pc = "failed"
  /\ InTrace(1, "User not found")
  /\ InTrace(1, "rejected")
  /\ tasks[1].status = <<200>>

\* C27: findOrCreateByPhone keeps one row per address.  No step leaves two
\* rows for an address; a row, once there, stays, with its id and address;
\* a row that appears is the new user of that address in state NEW; a call
\* that returns hands back the row of its address, and when the address was
\* known at the lookup the call has changed neither the table nor the ids.
C27_OneRecordPerAddress ==
  [][/\ \A a \in Users :
          /\ Len(users'[a]) <= 1
          /\ users[a] # <<>> =>
               /\ users'[a] # <<>>
               /\ users'[a][1].id = users[a][1].id
               /\ users'[a][1].phoneNumber = a
          /\ (users[a] = <<>> /\ users'[a] # <<>>) =>
               /\ users'[a] = <<NewUser(nextId, a)>>
               /\ users'[a][1].conversationState = "NEW"
     /\ \A t \in Tasks :
          (tasks[t].pc \in {"findOne", "saveNew"} /\ tasks'[t].pc = "saveUser") =>
            LET a == tasks[t].phoneNumber[1]
            IN  /\ tasks'[t].user = users'[a]
                /\ tasks[t].pc = "findOne" => (users' = users /\ nextId' = nextId)
                /\ tasks[t].pc = "saveNew" => users[a] = <<>>
    ]_vars
\* both addresses have their row, one of them returned to a later call for
\* the known address after the row had moved on from NEW
C27_Witness ==
  /\ \A a \in Users : Len(users[a]) = 1
  /\ \E t \in Tasks :
       /\ tasks[t].pc = "saveUser"
       /\ tasks[t].phoneNumber = <<"A">>
       /\ tasks[t].user # <<>>
       /\ tasks[t].user[1].conversationState = "AWAITING_NAME"
\* two first messages of one address in flight: the second insert refused
C27_WitnessDuplicateRefused ==
  \E t \in Tasks : tasks[t].pc = "failed" /\ InTrace(t, "duplicate key")

\* the calls of a successful handleBirthPlaceInput, in the order of the code
PlaceTurnCalls ==
  <<"geocodeLocation", "updateBirthInfo", "findById", "generateNatalChart",
    "chartRepository.save", "updateState", "interpretNatalChart">>
PlaceCallsMade(t) ==
  SelectSeq(tasks[t].trace,
            LAMBDA e : \E i \in 1..Len(PlaceTurnCalls) : PlaceTurnCalls[i] = e)

\* C28: a turn that started in AWAITING_BIRTH_PLACE makes its calls in the
\* order geocode, persist the place, re-read the profile, generate and save
\* the chart, set CHART_READY, interpret, and a turn that returns the
\* chart-ready reply has made all of them; each effect is in the row from
\* its call on: the place, coordinates and time zone of the geocoder, the
\* chart computed from the re-read profile, and the state, which is still
\* AWAITING_BIRTH_PLACE as long as the chart has not been saved and is
\* CHART_READY exactly from updateState on.
C28_PlaceTurnOrder ==
  \A t \in Tasks :
    (tasks[t].user # <<>> /\ tasks[t].user[1].conversationState = "AWAITING_BIRTH_PLACE") =>
      LET calls == PlaceCallsMade(t)
          row == RowNow(t)
      IN  /\ Len(calls) <= Len(PlaceTurnCalls)
          /\ calls = SubSeq(PlaceTurnCalls, 1, Len(calls))
          /\ (tasks[t].response # <<>> /\ tasks[t].response[1].kind = "chartReady")
               => calls = PlaceTurnCalls
          /\ InTrace(t, "updateBirthInfo") =>
               LET location == tasks[t].location[1]
               IN  /\ row.birthPlace = <<AddressOr(location.formattedAddress, tasks[t].place)>>
                   /\ row.birthLatitude = <<location.latitude>>
                   /\ row.birthLongitude = <<location.longitude>>
                   /\ row.timezone = <<location.timezone>>
          /\ InTrace(t, "findById") =>
               /\ tasks[t].updatedUser # <<>>
               /\ tasks[t].updatedUser[1] =
                    [row EXCEPT !.natalChart = tasks[t].updatedUser[1].natalChart,
                                !.conversationState = "AWAITING_BIRTH_PLACE"]
          /\ InTrace(t, "chartRepository.save") =>
               /\ tasks[t].chart =
                    <<NatalChartFor(tasks[t].updatedUser[1], tasks[t].provider[1])>>
               /\ row.natalChart = tasks[t].chart
          /\ ~InTrace(t, "chartRepository.save") =>
               row.conversationState = "AWAITING_BIRTH_PLACE"
          /\ InTrace(t, "updateState") <=> row.conversationState = "CHART_READY"
\* a place turn has returned the chart-ready reply
C28_Witness ==
  \E t \in Tasks :
    /\ tasks[t].user # <<>>
    /\ tasks[t].user[1].conversationState = "AWAITING_BIRTH_PLACE"
    /\ tasks[t].pc = "done"
    /\ tasks[t].response # <<>> /\ tasks[t].response[1].kind = "chartReady"
    /\ RowNow(t).conversationState = "CHART_READY"

\* every birth field of the profile has a stored value (0 is a value)
BirthFieldsStored(profile) ==
  /\ profile.name # <<>> /\ Len(profile.name[1]) >= 2
  /\ profile.birthDate # <<>>
  /\ profile.birthTime # <<>> /\ WellFormedTime(profile.birthTime[1])
  /\ profile.birthPlace # <<>> /\ Len(profile.birthPlace[1]) >= 1
  /\ profile.birthLatitude # <<>>
  /\ profile.birthLongitude # <<>>
  /\ profile.timezone # <<>> /\ Len(profile.timezone[1]) >= 1

\* C29: with turns processed one at a time, a user in CHART_READY or
\* CHATTING has name, birth date, birth time, birth place, latitude,
\* longitude and time zone stored and a chart saved; and the profile a
\* chart is (about to be) generated from has every birth field.
C29_ChartStatesComplete ==
  /\ \A a \in Users :
       (users[a] # <<>> /\ users[a][1].conversationState \in {"CHART_READY", "CHATTING"}) =>
         /\ BirthFieldsStored(users[a][1])
         /\ users[a][1].natalChart # <<>>
  /\ \A t \in Tasks :
       (tasks[t].pc = "generateChart" \/ InTrace(t, "generateNatalChart")) =>
         /\ tasks[t].updatedUser # <<>>
         /\ BirthFieldsStored(tasks[t].updatedUser[1])
\* a user is in CHART_READY, the chart generated from the re-read profile
C29_Witness ==
  /\ users["A"] # <<>>
  /\ users["A"][1].conversationState = "CHART_READY"
  /\ users["A"][1].natalChart # <<>>
  /\ InTrace(1, "generateNatalChart")
  /\ tasks[1].chart = users["A"][1].natalChart

\* the log of the user shows a reset answered after the last chart-ready
\* reply
ResetSinceChart(userId) ==
  LET own == SelectSeq(messages, LAMBDA e : e.userId = userId /\ e.role = "assistant")
  IN  \E i \in 1..Len(own) :
        /\ own[i].content = ResetReply
        /\ \A j \in (i + 1)..Len(own) : own[j].content.kind # "chartReady"

\* C30: a chart, once saved, stays as it is until a reset.  A step that
\* generates and saves a chart is made by a turn that started in
\* AWAITING_BIRTH_PLACE, and when the user already has a chart a reset has
\* been answered since; no other step changes the chart of a row.
C30_ChartImmutable ==
  [][\A a \in Users :
       (users[a] # <<>> /\ users'[a] # <<>>) =>
         /\ users'[a][1].natalChart # users[a][1].natalChart =>
              \E t \in Tasks :
                /\ tasks[t].pc = "generateChart" /\ tasks'[t].pc = "setChartReady"
                /\ tasks[t].user[1].id = users[a][1].id
         /\ \A t \in Tasks :
              ( /\ tasks[t].pc = "generateChart" /\ tasks'[t].pc = "setChartReady"
                /\ tasks[t].user[1].id = users[a][1].id ) =>
                /\ tasks[t].user[1].conversationState = "AWAITING_BIRTH_PLACE"
                /\ users[a][1].natalChart # <<>> => ResetSinceChart(users[a][1].id)
    ]_vars

ZodiacNames == {zodiacSigns[i] : i \in 1..12}

\* C31: the moon sign index of the fallback chart is in 0..11 and its
\* moonSign is one of the twelve sign names, for every birth date from 1900
\* on, dates before the epoch included.
C31_MoonSignNamed ==
  \A t \in Tasks :
    (tasks[t].chart # <<>> /\ tasks[t].chart[1].method = "basic_calculation") =>
      /\ MoonSignIndex(tasks[t].updatedUser[1].birthDate[1]) \in 0..11
      /\ tasks[t].chart[1].moonSign \in ZodiacNames

\* the shape of a fallback chart computed for a birth time: the ascendant
\* one sign further every two hours from the sun sign, the seven planets
\* and the twelve houses
FallbackShape(chart, hours) ==
  LET sunSignIndex == SignIndexOf(chart.sunSign)
      ascendantIndex == (sunSignIndex + (hours \div 2)) % 12
      shifted == [i \in 1..7 |-> CASE i = 4 -> 11 [] i = 5 -> 2 [] i = 6 -> 4
                                   [] i = 7 -> 6 [] OTHER -> 0]
  IN  /\ sunSignIndex \in 0..11
      /\ chart.ascendant = SignAt(ascendantIndex)
      /\ [i \in 1..Len(chart.planets) |-> chart.planets[i].planet]
           = <<"Sun", "Moon", "Mercury", "Venus", "Mars", "Jupiter", "Saturn">>
      /\ \A i \in {1, 3, 4, 5, 6, 7} :
           chart.planets[i].sign = SignAt((sunSignIndex + shifted[i]) % 12)
      /\ chart.planets[2].sign = chart.moonSign
      /\ Len(chart.houses) = 12
      /\ \A i \in 1..12 :
           /\ chart.houses[i].house = i
           /\ chart.houses[i].sign = SignAt((ascendantIndex + i - 1) % 12)
AllSignsNamed(chart) ==
  /\ {chart.sunSign, chart.moonSign, chart.ascendant} \subseteq ZodiacNames
  /\ \A i \in 1..Len(chart.planets) : chart.planets[i].sign \in ZodiacNames
  /\ \A i \in 1..Len(chart.houses) : chart.houses[i].sign \in ZodiacNames

\* C32: every fallback chart, whatever the sun sign and the minute of the
\* day, has the ascendant floor((sunSignIndex + hours/2 + minutes/120) mod 12),
\* the seven planets Sun..Saturn in order with the sun or moon sign or the
\* sun sign shifted by -1, +2, +4, +6, the twelve houses numbered 1..12
\* counting signs from the ascendant, and only zodiac names as signs.
C32_FallbackShape ==
  \A t \in Tasks :
    (tasks[t].chart # <<>> /\ tasks[t].chart[1].method = "basic_calculation") =>
      /\ FallbackShape(tasks[t].chart[1], SplitTime(tasks[t].updatedUser[1].birthTime[1])[1])
      /\ AllSignsNamed(tasks[t].chart[1])

\* the template the fallback is to use for a question
TemplateFor(question) ==
  LET lower == ToLower(question)
      has(word) == \E i \in 1..(Len(lower) - Len(word) + 1) :
                     SubSeq(lower, i, i + Len(word) - 1) = word
  IN  IF has(KwLove) \/ has(KwRelationship) THEN "loveTemplate"
      ELSE IF has(KwCareer) \/ has(KwWork) \/ has(KwJob) THEN "careerTemplate"
      ELSE "generalTemplate"

\* C33: when the language model is out of reach (no client, or the call
\* raises) the advice is the fallback template chosen from the lower-cased
\* question, love before career before general; it carries the signs of
\* the chart, or "your sign" and "emotional" when the user has no chart;
\* and the turn is never ended by an error.
C33_FallbackAdviceTemplate ==
  \A t \in Tasks :
    InTrace(t, "getPersonalizedAdvice") =>
      LET user == tasks[t].user[1]
          reply == tasks[t].response[1]
          viaFallback == reply.kind \notin {"llmAdvice", "troubleThinking"}
      IN  /\ tasks[t].pc # "failed"
          /\ ~openai => viaFallback
          /\ viaFallback =>
               /\ reply.kind = TemplateFor(tasks[t].messageText)
               /\ reply.sunSign = IF user.natalChart = <<>> THEN "your sign"
                                  ELSE user.natalChart[1].sunSign
               /\ reply.kind # "careerTemplate" =>
                    reply.moonSign = IF user.natalChart = <<>> THEN "emotional"
                                     ELSE user.natalChart[1].moonSign
\* a question naming love and a job, asked by a user without a chart, is
\* answered with the love template and the placeholder wording
C33_Witness ==
  /\ tasks[1].pc = "done"
  /\ InTrace(1, "getPersonalizedAdvice")
  /\ tasks[1].user[1].natalChart = <<>>
  /\ TemplateFor(tasks[1].messageText) = "loveTemplate"
  /\ \E i \in 1..(Len(tasks[1].messageText) - 2) :
       SubSeq(ToLower(tasks[1].messageText), i, i + 2) = KwJob
  /\ tasks[1].returned[1] = [kind |-> "loveTemplate", sunSign |-> "your sign",
                             moonSign |-> "emotional"]

\* C34: getDailyHoroscope for a user without a chart returns the no-chart
\* message and has neither fetched the transits nor called the language
\* model; the transits are fetched, and the provider is called or the
\* fallback template built, exactly when the user has a chart.
C34_HoroscopeFailsFast ==
  \A t \in Tasks :
    InTrace(t, "getDailyHoroscope") =>
      LET user == tasks[t].user[1]
          reply == tasks[t].response[1]
      IN  /\ user.natalChart = <<>> <=> reply.kind = "noChartYet"
          /\ InTrace(t, "getCurrentTransits") <=> user.natalChart # <<>>
          /\ InTrace(t, "chat.completions.create") <=> (user.natalChart # <<>> /\ openai)
          /\ reply.kind \in {"llmHoroscope", "fallbackHoroscope"} <=> user.natalChart # <<>>
          /\ reply.kind = "llmHoroscope" => InTrace(t, "chat.completions.create")
\* a user without a chart asked for the horoscope, the client configured
C34_Witness ==
  /\ tasks[1].pc = "done"
  /\ InTrace(1, "getDailyHoroscope")
  /\ tasks[1].user[1].natalChart = <<>>
  /\ openai
  /\ tasks[1].returned = <<[kind |-> "noChartYet"]>>

\* the member has no value: null, undefined or the empty string
Missing(column) == column = <<>> \/ DOMAIN column[1] = {}

\* C35: hasCompleteBirthData returns false when birthDate, birthTime or
\* birthPlace is null, undefined or empty or a coordinate is null or
\* undefined, false when a coordinate is 0, and true when all five hold
\* non-empty, non-zero values.
C35_CompleteBirthData ==
  \A t \in Tasks :
    InTrace(t, "hasCompleteBirthData") =>
      LET user == tasks[t].user[1]
          result == tasks[t].returned[1]
          texts == {user.birthDate, user.birthTime, user.birthPlace}
          coordinates == {user.birthLatitude, user.birthLongitude}
      IN  /\ result \in BOOLEAN
          /\ (\E c \in texts : Missing(c)) => ~result
          /\ (\E c \in coordinates : c = <<>>) => ~result
          /\ (\E c \in coordinates : c = <<0>>) => ~result
          /\ ( /\ \A c \in texts : ~Missing(c)
               /\ \A c \in coordinates : c # <<>> /\ c # <<0>> ) => result
\* false for a user whose every member is set and whose latitude is 0
C35_Witness ==
  /\ InTrace(1, "hasCompleteBirthData")
  /\ tasks[1].returned = <<FALSE>>
  /\ tasks[1].user[1].birthLatitude = <<0>>
  /\ tasks[1].user[1].birthLongitude = <<-113>>
  /\ ~Missing(tasks[1].user[1].birthDate)
  /\ ~Missing(tasks[1].user[1].birthTime)
  /\ ~Missing(tasks[1].user[1].birthPlace)

\* the log entries of the user of a turn
OwnLog(t) == SelectSeq(messages, LAMBDA e : e.userId = tasks[t].user[1].id)
\* the turn has ended and the reply before its message was the given one
EndedAfter(t, reply) ==
  LET own == OwnLog(t)
      n == Len(own)
  IN  /\ tasks[t].pc = "done"
      /\ n >= 3
      /\ own[n - 2].role = "assistant" /\ own[n - 2].content = reply
      /\ own[n - 1].role = "user"
      /\ own[n].role = "assistant"

\* C36: the message after a reset is handled in state NEW whatever it says:
\* the reply is the welcome, the state becomes AWAITING_NAME and the stored
\* name stays as it was; the message after that welcome is the one taken as
\* the name.
C36_MessageAfterReset ==
  \A t \in Tasks :
    /\ EndedAfter(t, ResetReply) =>
         /\ tasks[t].user[1].conversationState = "NEW"
         /\ InTrace(t, "handleNewUser")
         /\ ~InTrace(t, "updateBirthInfo")
         /\ tasks[t].returned = <<WelcomeReply>>
         /\ RowNow(t) = [tasks[t].user[1] EXCEPT !.conversationState = "AWAITING_NAME"]
    /\ (EndedAfter(t, WelcomeReply) /\ NameAccepted(tasks[t].messageText)) =>
         /\ tasks[t].user[1].conversationState = "AWAITING_NAME"
         /\ RowNow(t).name = <<CleanName(tasks[t].messageText)>>
         /\ RowNow(t).conversationState = "AWAITING_BIRTH_DATE"
\* after a reset the user sent "reset" and then a name: the first was
\* answered with the welcome and the second replaced the stored name
C36_Witness ==
  /\ EndedAfter(1, WelcomeReply)
  /\ Len(OwnLog(1)) >= 15
  /\ OwnLog(1)[Len(OwnLog(1)) - 4].content = ResetReply
  /\ OwnLog(1)[Len(OwnLog(1)) - 3].content = [kind |-> "text", text |-> TxtReset]
  /\ tasks[1].user[1].name = <<TxtAl>>
  /\ RowNow(1).name = <<TxtReset>>

\* C37: a reset turn changes the conversationState of the row and nothing
\* else, and the chart of a row stays the same chart, step after step, until
\* a turn that started in AWAITING_BIRTH_PLACE saves a new one.
C37_ResetKeepsProfile ==
  [][/\ \A t \in Tasks :
          (tasks'[t].pc \in {"saveAssistant", "done"} /\ InTrace(t, "reset")') =>
            UserById(users', tasks'[t].user[1].id)
              = [tasks'[t].user[1] EXCEPT !.conversationState = "NEW"]
     /\ \A a \in Users :
          (users[a] # <<>> /\ users[a][1].natalChart # <<>>) =>
            \/ users'[a][1].natalChart = users[a][1].natalChart
            \/ \E t \in Tasks :
                 /\ tasks[t].pc = "generateChart" /\ tasks'[t].pc = "setChartReady"
                 /\ tasks[t].user[1].conversationState = "AWAITING_BIRTH_PLACE"
                 /\ users'[a][1].natalChart = tasks'[t].chart
    ]_vars
\* after a reset the second onboarding has reached its place turn with the
\* first chart still attached, and that turn has saved another chart
C37_Witness ==
  /\ tasks[1].pc = "done"
  /\ tasks[1].user[1].conversationState = "AWAITING_BIRTH_PLACE"
  /\ tasks[1].user[1].natalChart # <<>>
  /\ \E i \in 1..Len(messages) : messages[i].content = ResetReply
  /\ RowNow(1).natalChart = tasks[1].chart
  /\ RowNow(1).natalChart # tasks[1].user[1].natalChart

\* C38: a turn that started in AWAITING_BIRTH_PLACE and replies with the
\* "couldn't find that location" message has left the row of its user as it
\* was when the turn started: place, coordinates, time zone, chart and
\* conversationState included.
C38_LocationFailureChangesNothing ==
  \A t \in Tasks :
    (/\ Replied(t)
     /\ tasks[t].user[1].conversationState = "AWAITING_BIRTH_PLACE"
     /\ tasks[t].response = <<GeocodeFailedReply>>) =>
      RowNow(t) = tasks[t].user[1]

(***************************************************************************)
(* A burst of questions.  processIncomingMessage is started once per       *)
(* webhook call and nothing makes a call wait for the one before: a user   *)
(* whose chart has been saved sends questions whose calls run at the same  *)
(* time, each with its own text, the first ones while the place turn still *)
(* waits for the interpretation.  Onboarding is done one turn at a time    *)
(* with valid inputs, the chart provider is out of reach, the language     *)
(* model is configured.                                                    *)
(***************************************************************************)
MaxBurstTurns == 7
BurstTasks == {1, 2, 3}
BurstQuestion(t) ==
  IF t = 1 THEN TxtLove
  ELSE IF t = 2 THEN <<"c", "a", "r", "e", "e", "r">>
  ELSE <<"h", "e", "a", "l", "t", "h">>
InitBurst ==
  /\ users = [a \in Users |-> <<>>]
  /\ messages = <<>>
  /\ tasks = [t \in BurstTasks |-> IdleTask]
  /\ nextId = 1
  /\ turns = 0
  /\ openai = TRUE
  /\ auth = NoAuth
BurstBodies(t, state) ==
  IF state \in {"CHART_READY", "CHATTING"} THEN {BurstQuestion(t)}
  ELSE IF state = "AWAITING_BIRTH_DATE" THEN {TxtDate}
  ELSE IF state = "AWAITING_BIRTH_TIME" THEN {TxtTime}
  ELSE {TxtAl}
\* a call takes the first slot that is free; before the chart is there the
\* user waits for each reply
ReceiveInBurst(t, a) ==
  LET user == IF users[a] = <<>> THEN NewUser(nextId, a) ELSE users[a][1]
      chatting == StateOf(a) \in {"CHART_READY", "CHATTING"}
  IN  /\ turns < MaxBurstTurns
      /\ tasks[t].pc \in NotRunning
      /\ \A o \in BurstTasks : o < t => tasks[o].pc \notin NotRunning
      /\ chatting \/ \A o \in BurstTasks : tasks[o].pc \in NotRunning
      /\ \E body \in BurstBodies(t, StateOf(a)) :
           tasks' = [tasks EXCEPT ![t] =
                       [IdleTask EXCEPT !.pc = "saveUser", !.user = <<user>>,
                                        !.messageText = Trim(body)]]
      /\ users' = [users EXCEPT ![a] = <<user>>]
      /\ nextId' = IF users[a] = <<>> THEN nextId + 1 ELSE nextId
      /\ turns' = turns + 1
      /\ UNCHANGED <<messages, openai, auth>>
NextBurst ==
  \/ \E t \in BurstTasks : ReceiveInBurst(t, "A")
  \/ \E t \in BurstTasks : SaveUserMessage(t)
  \/ HandleNewUser(1)
  \/ HandleNameInput(1)
  \/ HandleBirthDateInput(1)
  \/ HandleBirthTimeInput(1)
  \/ HandleBirthPlaceInput(1)
  \/ GeocodeFinds(1)
  \/ PersistBirthPlace(1)
  \/ GenerateNatalChartOn(1, [error |-> "networkError"])
  \/ SetChartReady(1)
  \/ InterpretNatalChartFailing(1)
  \/ \E t \in BurstTasks : HandleChatMessage(t)
  \/ \E t \in BurstTasks : SaveAssistantMessage(t)
SpecBurst == InitBurst /\ [][NextBurst]_vars

\* the log entries of the user of turn t, and the place in them of the
\* message that turn saved: the last user entry with the text of the turn
LogOf(t) == SelectSeq(messages, LAMBDA e : e.userId = tasks[t].user[1].id)
SavedAt(t) ==
  LET own == LogOf(t)
      mine == {i \in 1..Len(own) :
                 /\ own[i].role = "user"
                 /\ own[i].content = [kind |-> "text", text |-> tasks[t].messageText]}
  IN  CHOOSE i \in mine : \A j \in mine : j <= i

\* C39: the message list of an advice turn ends with the question of the
\* turn, and what stands between the system prompt and the question is a
\* run of log entries saved before the message of the turn: the question
\* the turn has just saved is not among them (stated when the list has been
\* built).
C39_QuestionOnce ==
  \A t \in DOMAIN tasks :
    (tasks[t].pc = "saveAssistant" /\ tasks[t].llmMessages # <<>>) =>
      LET list == tasks[t].llmMessages
          part == SubSeq(list, 2, Len(list) - 1)
          own == LogOf(t)
      IN  /\ list[Len(list)] = [role |-> "user",
                                content |-> [kind |-> "text", text |-> tasks[t].messageText]]
          /\ \E i \in 1..SavedAt(t) :
               /\ i + Len(part) <= SavedAt(t)
               /\ part = AsProviderMessages(SubSeq(own, i, i + Len(part) - 1))

\* the token cache: the two members getProkeralaToken reads and writes
TokenCache(a) == [prokeralaToken |-> a.prokeralaToken, tokenExpiry |-> a.tokenExpiry]

\* C40: a call of getProkeralaToken that fails (no credentials, or the
\* token request failed) ends with an error and without a token, and the
\* step in which it fails leaves prokeralaToken and tokenExpiry as they
\* are; the two change only in the step in which a call that was waiting
\* for the provider receives a token response and returns that token.
C40_FailedRefreshKeepsCache ==
  [][/\ \A c \in Callers :
          (auth'.calls[c].pc = "threw" /\ auth'.calls[c] # auth.calls[c]) =>
            /\ TokenCache(auth') = TokenCache(auth)
            /\ auth'.calls[c].got = <<>>
            /\ auth'.calls[c].via = "none"
            /\ ~CacheValid([auth EXCEPT !.prokeralaToken = auth'.calls[c].seen.prokeralaToken,
                                        !.tokenExpiry = auth'.calls[c].seen.tokenExpiry,
                                        !.now = auth'.calls[c].sentAt])
     /\ TokenCache(auth') # TokenCache(auth) =>
          \E c \in Callers :
            /\ auth.calls[c].pc = "requesting"
            /\ auth'.calls[c].pc = "returned"
            /\ auth'.calls[c].via = "provider"
            /\ Len(auth'.responses) = Len(auth.responses) + 1
            /\ auth'.prokeralaToken = auth'.calls[c].got
    ]_vars
\* a refresh of an expired token has failed and the expired token and its
\* expiry are still in the cache
C40_Witness ==
  \E c \in Callers :
    /\ auth.calls[c].pc = "threw"
    /\ auth.calls[c].seen.prokeralaToken # <<>>
    /\ TokenCache(auth) = auth.calls[c].seen

====
